---- MODULE Spec2Model ----
(***************************************************************************)
(* Front end of the language: SourceMap, DiagnosticEmitter, Lexer          *)
(* (src/src/lexer.rs, src/src/version2/diagnostics.rs) and the recursive   *)
(* descent Parser (src/src/version2/parser.rs).                            *)
(*                                                                         *)
(* A source text is a sequence of characters, each character a one         *)
(* character string ("NUL" stands for '\0', "EACUTE" for a two byte        *)
(* character).  The lexer and                                              *)
(* the parser are deterministic, so their methods are operators from a     *)
(* machine state (the fields of Lexer, Parser and the emitter's sink) to   *)
(* the state after the call and the value returned; the actions apply      *)
(* them to the variables.                                                  *)
(***************************************************************************)
EXTENDS Integers, Sequences, FiniteSets, TLC

VARIABLES
  src,              \* the source text handed to SourceMap::new and Lexer::new
  chars,            \* Lexer.src: how many characters the iterator has yielded
  read,             \* Lexer.read
  next,             \* Lexer.next: the two lookahead slots
  lexer_has_error,  \* Lexer.has_error
  has_error,        \* Parser.has_error
  sink,             \* the diagnostics written through the emitter, in order
  panicked,         \* the process aborted (panic!, todo!, failed unwrap)
  ast,              \* Parser::parse: the nodes pushed so far
  mode,             \* "lex" | "map" | "parse" | "done" | "recovered" | "expected" | "skipped"
  op,               \* the last call made, and
  ret,              \*   what it returned
  prev_op,          \* the call before it, and
  prev_ret,         \*   what that returned
  returned          \* the tokens Lexer::next has returned, in order

vars == <<src, chars, read, next, lexer_has_error, has_error, sink, panicked,
          ast, mode, op, ret, prev_op, prev_ret, returned>>

\* value bound to a name in Body: LET name == value IN Body, the value computed once
With(value, Body(_)) == CHOOSE result \in {Body(bound) : bound \in {value}} : TRUE

-----------------------------------------------------------------------------
(* Characters *)

NL == "\n"
TAB == "\t"
BACKSLASH == "\\"
DQUOTE == "\""
SQUOTE == "'"
NUL == "NUL"
EACUTE == "EACUTE"

\* str::len counts bytes: every character of the model is ASCII but EACUTE
ByteLen(c) == IF c = EACUTE THEN 2 ELSE 1

RECURSIVE StrLen(_)
StrLen(text) == IF text = <<>> THEN 0 ELSE ByteLen(Head(text)) + StrLen(Tail(text))

is_whitespace(c) == c \in {" ", NL, TAB}

Digits == {"0", "1", "2", "3", "4", "5", "6", "7", "8", "9"}

is_digit(c) == c \in Digits

-----------------------------------------------------------------------------
(* Tokens *)

Span(start, end) == [start |-> start, end |-> end]

Token(kind, bop, text, num, start, end) ==
  [kind |-> kind, op |-> bop, text |-> text, num |-> num, span |-> Span(start, end)]

\* Option<Token>::None
None == [kind |-> "None", op |-> "", text |-> <<>>, num |-> <<>>, span |-> Span(0, 0)]

\* TokenType without its span: what == on TokenType compares
TokenType(kind, bop, text, num) == [kind |-> kind, op |-> bop, text |-> text, num |-> num]

Kind(t) == [kind |-> t.kind, op |-> t.op, text |-> t.text, num |-> t.num]

TStruct == TokenType("Struct", "", <<>>, <<>>)
TRet == TokenType("Ret", "", <<>>, <<>>)
TLBrace == TokenType("LBrace", "", <<>>, <<>>)
TRBrace == TokenType("RBrace", "", <<>>, <<>>)
TLParen == TokenType("LParen", "", <<>>, <<>>)
TRParen == TokenType("RParen", "", <<>>, <<>>)
TColon == TokenType("Colon", "", <<>>, <<>>)
TSemicolon == TokenType("Semicolon", "", <<>>, <<>>)
TDot == TokenType("Dot", "", <<>>, <<>>)
TComma == TokenType("Comma", "", <<>>, <<>>)
TArrow == TokenType("Arrow", "", <<>>, <<>>)
TEquals == TokenType("Equals", "", <<>>, <<>>)
TBinOp(bop) == TokenType("BinOp", bop, <<>>, <<>>)
TBinOpEquals(bop) == TokenType("BinOpEquals", bop, <<>>, <<>>)

\* Lexer::new: special_chars
special_chars ==
  [c \in {"+", "-", "*", "/", "%", "|", "&", "!", ";", ".", ",", "{", "}", "(", ")", "=", ":"} |->
     CASE c = "+" -> TBinOp("Add")
       [] c = "-" -> TBinOp("Minus")
       [] c = "*" -> TBinOp("Multiply")
       [] c = "/" -> TBinOp("Divide")
       [] c = "%" -> TBinOp("Modulo")
       [] c = "|" -> TBinOp("Or")
       [] c = "&" -> TBinOp("And")
       [] c = "!" -> TBinOp("Not")
       [] c = ";" -> TSemicolon
       [] c = "." -> TDot
       [] c = "," -> TComma
       [] c = "{" -> TLBrace
       [] c = "}" -> TRBrace
       [] c = "(" -> TLParen
       [] c = ")" -> TRParen
       [] c = "=" -> TEquals
       [] c = ":" -> TColon]

\* Lexer::new: second_special_chars
second_special_chars == {"=", ">"}

\* Lexer::new: keywords
keywords(text) ==
  CASE text = <<"s", "t", "r", "u", "c", "t">> -> TStruct
    [] text = <<"r", "e", "t">> -> TRet
    [] OTHER -> TokenType("Identifier", "", text, <<>>)

-----------------------------------------------------------------------------
(* SourceMap *)

\* SourceMap::new had it counted characters where line.len() counts bytes
RECURSIVE SourceMapLines_chars(_, _, _, _, _)
SourceMapLines_chars(text, i, loc, linelen, start) ==
  IF i > Len(text)
    THEN IF linelen # 0 THEN <<Span(start, loc + linelen)>> ELSE <<>>
    ELSE IF text[i] = NL
           THEN <<Span(start, loc + linelen + 1)>> \o
                SourceMapLines_chars(text, i + 1, loc + linelen + 1, 0, loc + linelen + 1)
           ELSE SourceMapLines_chars(text, i + 1, loc, linelen + 1, start)

\* SourceMap::new: the line ranges of the text
RECURSIVE SourceMapLines(_, _, _, _, _)
SourceMapLines(text, i, loc, linelen, start) ==
  IF i > Len(text)
    THEN IF linelen # 0 THEN <<Span(start, loc + linelen)>> ELSE <<>>
    ELSE IF text[i] = NL
           THEN <<Span(start, loc + linelen + 1)>> \o
                SourceMapLines(text, i + 1, loc + linelen + 1, 0, loc + linelen + 1)
           ELSE SourceMapLines(text, i + 1, loc, linelen + ByteLen(text[i]), start)

SourceMap_new(text) == SourceMapLines(text, 1, 0, 0, 0)

\* SourceMap::eoi_span
eoi_span(lines) ==
  IF lines = <<>> THEN Span(0, 0)
  ELSE Span(lines[Len(lines)].end, lines[Len(lines)].end)

\* SourceMap::span_to_loc fails (unwrap of None) exactly when there is no line
span_to_loc_fails(lines) == lines = <<>>

Loc(line, column) == [line |-> line, column |-> column]

\* what is installed as the result of a call that panicked
NoLoc == Loc(0, 0)

\* SourceMap::span_to_loc, the scan from line i on: the first range that
\* contains span.start, else the last line
RECURSIVE span_to_loc_from(_, _, _)
span_to_loc_from(lines, i, span) ==
  IF i > Len(lines)
    THEN Loc(Len(lines), span.start - lines[Len(lines)].start + 1)
    ELSE IF lines[i].start <= span.start /\ span.start < lines[i].end
           THEN Loc(i, span.start - lines[i].start + 1)
           ELSE span_to_loc_from(lines, i + 1, span)

span_to_loc(lines, span) ==
  IF span_to_loc_fails(lines) THEN NoLoc ELSE span_to_loc_from(lines, 1, span)

-----------------------------------------------------------------------------
(* The machine state the methods act on *)

State == [pos |-> chars, read |-> read, n0 |-> next[1], n1 |-> next[2],
          lerr |-> lexer_has_error, perr |-> has_error, sink |-> sink,
          panic |-> panicked]

\* Construction: Lexer::new, Parser::new, an empty sink
NewState == [pos |-> 0, read |-> 0, n0 |-> None, n1 |-> None,
             lerr |-> FALSE, perr |-> FALSE, sink |-> <<>>, panic |-> FALSE]

\* A panic ends the process: the state stays what it was at that point
Panic(st) == [st EXCEPT !.panic = TRUE]

\* Emit::emit of an error: resolves the span, then writes to the sink
Emit(st, label, span) ==
  IF st.panic THEN st
  ELSE IF span_to_loc_fails(SourceMap_new(src)) THEN Panic(st)
  ELSE [st EXCEPT !.sink = Append(@, [label |-> label, span |-> span])]

EmitEoi(st, label) == Emit(st, label, eoi_span(SourceMap_new(src)))

\* self.has_error = true, of the Lexer and of the Parser
SetLexerError(st) == IF st.panic THEN st ELSE [st EXCEPT !.lerr = TRUE]

SetParserError(st) == IF st.panic THEN st ELSE [st EXCEPT !.perr = TRUE]

-----------------------------------------------------------------------------
(* Lexer *)

U64Max == <<"1", "8", "4", "4", "6", "7", "4", "4", "0", "7", "3", "7", "0", "9", "5", "5",
            "1", "6", "1", "5">>

DigitVal(c) ==
  CASE c = "0" -> 0 [] c = "1" -> 1 [] c = "2" -> 2 [] c = "3" -> 3 [] c = "4" -> 4
    [] c = "5" -> 5 [] c = "6" -> 6 [] c = "7" -> 7 [] c = "8" -> 8 [] c = "9" -> 9

\* a number is kept as its decimal numeral without leading zeros
RECURSIVE Numeral(_)
Numeral(text) ==
  IF Len(text) > 1 /\ Head(text) = "0" THEN Numeral(Tail(text)) ELSE text

RECURSIVE NumeralLess(_, _)
NumeralLess(a, b) ==
  IF Len(a) # Len(b) THEN Len(a) < Len(b)
  ELSE IF a = <<>> THEN FALSE
  ELSE IF Head(a) # Head(b) THEN DigitVal(Head(a)) < DigitVal(Head(b))
  ELSE NumeralLess(Tail(a), Tail(b))

\* str::parse::<u64>: Err when the value does not fit 64 bits
parse_u64_overflows(text) == NumeralLess(U64Max, Numeral(text))

\* next_internal, literal branch: the loop over the characters of the literal
RECURSIVE lex_literal(_, _, _)
lex_literal(st, start_char, text) ==
  IF st.pos >= Len(src) \/ src[st.pos + 1] = start_char
    THEN [st |-> st, text |-> text]
  ELSE IF src[st.pos + 1] # BACKSLASH
    THEN lex_literal([st EXCEPT !.pos = @ + 1, !.read = @ + 1], start_char,
                     Append(text, src[st.pos + 1]))
  ELSE IF st.pos + 1 >= Len(src)
    THEN lex_literal([st EXCEPT !.pos = @ + 1, !.read = @ + 1], start_char, text)
  ELSE LET e == src[st.pos + 2]
           s1 == [st EXCEPT !.pos = @ + 1]
       IN CASE e = "n" ->
                 lex_literal([s1 EXCEPT !.pos = @ + 1, !.read = @ + 2], start_char,
                             Append(text, NL))
            [] e = "t" ->
                 lex_literal([s1 EXCEPT !.pos = @ + 1, !.read = @ + 2], start_char,
                             Append(text, TAB))
            [] e = BACKSLASH ->
                 lex_literal([s1 EXCEPT !.pos = @ + 1, !.read = @ + 2], start_char,
                             Append(text, BACKSLASH))
            [] e = "0" ->
                 lex_literal([s1 EXCEPT !.pos = @ + 1, !.read = @ + 2], start_char,
                             Append(text, NUL))
            [] OTHER ->
                 lex_literal([SetLexerError(Emit(s1, <<"invalid escape sequence ", e>>,
                                                 Span(s1.read, s1.read + 1)))
                                EXCEPT !.pos = @ + 1, !.read = @ + 2],
                             start_char, text)

\* next_internal, last branch: the run of non-whitespace, non-special characters
RECURSIVE lex_word(_, _)
lex_word(st, text) ==
  IF st.pos < Len(src) /\ ~is_whitespace(src[st.pos + 1])
        /\ src[st.pos + 1] \notin DOMAIN special_chars
    THEN lex_word([st EXCEPT !.pos = @ + 1, !.read = @ + 1], Append(text, src[st.pos + 1]))
    ELSE [st |-> st, text |-> text]

\* the special character branch had it not counted the second character in
\* self.read
lex_special_uncounted(st, char, start) ==
  LET first == special_chars[char]
      combine == /\ st.pos < Len(src)
                 /\ src[st.pos + 1] \in second_special_chars
                 /\ first.kind = "BinOp"
  IN IF ~combine
       THEN [st |-> st, tok |-> Token(first.kind, first.op, <<>>, <<>>, start, st.read)]
     ELSE IF src[st.pos + 1] = "="
       THEN [st |-> [st EXCEPT !.pos = @ + 1],
             tok |-> Token("BinOpEquals", first.op, <<>>, <<>>, start, st.read + 1)]
     ELSE [st |-> [st EXCEPT !.pos = @ + 1],
           tok |-> Token("Arrow", "", <<>>, <<>>, start, st.read + 1)]

\* next_internal, special character branch; st is the state after the character
lex_special(st, char, start) ==
  LET first == special_chars[char]
      combine == /\ st.pos < Len(src)
                 /\ src[st.pos + 1] \in second_special_chars
                 /\ first.kind = "BinOp"
  IN IF ~combine
       THEN [st |-> st, tok |-> Token(first.kind, first.op, <<>>, <<>>, start, st.read)]
     ELSE IF src[st.pos + 1] = "="
       THEN [st |-> [st EXCEPT !.pos = @ + 1, !.read = @ + 1],
             tok |-> Token("BinOpEquals", first.op, <<>>, <<>>, start, st.read + 1)]
     ELSE [st |-> [st EXCEPT !.pos = @ + 1, !.read = @ + 1],
           tok |-> Token("Arrow", "", <<>>, <<>>, start, st.read + 1)]

\* the literal branch had it said nothing of a literal that is not closed
lex_literal_close_silent(st, is_char_literal, text, start) ==
  IF st.pos >= Len(src) THEN st ELSE [st EXCEPT !.pos = @ + 1]

\* next_internal, literal branch after the loop: the closing quote
lex_literal_close(st, is_char_literal, text, start) ==
  IF st.pos >= Len(src)
    THEN SetLexerError(
           Emit(st,
                IF is_char_literal THEN <<"unterminated char literal ">> \o text
                                   ELSE <<"unterminated string literal ">> \o text,
                Span(start, st.read)))
    ELSE [st EXCEPT !.pos = @ + 1]

\* next_internal, literal branch after the closing quote: the length check, the token
lex_literal_token(st, is_char_literal, text, start) ==
  [st |-> IF is_char_literal /\ StrLen(text) > 1
            THEN SetLexerError(Emit(st, <<"invalid character literal ">> \o text,
                                    Span(start, st.read)))
            ELSE st,
   tok |-> Token(IF is_char_literal THEN "CharLiteral" ELSE "StringLiteral",
                 "", text, <<>>, start, st.read)]

\* next_internal, last branch after the loop: number, keyword or identifier
lex_word_token(st, text, start) ==
  IF \A i \in 1..Len(text) : is_digit(text[i])
    THEN IF parse_u64_overflows(text)
           THEN [st |-> Panic(st), tok |-> None]
           ELSE [st |-> st, tok |-> Token("Num", "", <<>>, Numeral(text), start, st.read)]
    ELSE [st |-> st,
          tok |-> Token(keywords(text).kind, keywords(text).op, keywords(text).text,
                        keywords(text).num, start, st.read)]

\* Lexer::next_internal
RECURSIVE next_internal(_)
next_internal(st) ==
  IF st.panic \/ st.pos >= Len(src) THEN [st |-> st, tok |-> None]
  ELSE
    LET start == st.read
        char == src[st.pos + 1]
        s1 == [st EXCEPT !.pos = @ + 1, !.read = @ + 1]
    IN
    IF is_whitespace(char) THEN next_internal(s1)
    ELSE IF char \in DOMAIN special_chars THEN lex_special(s1, char, start)
    ELSE IF char \in {DQUOTE, SQUOTE} THEN
      With(lex_literal(s1, char, <<>>), LAMBDA lit :
        lex_literal_token(lex_literal_close(lit.st, char = SQUOTE, lit.text, start),
                          char = SQUOTE, lit.text, start))
    ELSE
      With(lex_word(s1, <<char>>), LAMBDA w : lex_word_token(w.st, w.text, start))

\* self.next[0] = token, self.next[1] = token; r is what next_internal returned
fill_slot_0(r) == [st |-> [r.st EXCEPT !.n0 = r.tok], tok |-> r.tok]

fill_slot_1(r) == [st |-> [r.st EXCEPT !.n1 = r.tok], tok |-> r.tok]

\* peek(PeekCount::One) that does not keep the token in self.next[0]
lexer_peek_one_uncached(st) ==
  IF st.n0 # None THEN [st |-> st, tok |-> st.n0] ELSE next_internal(st)

\* Lexer::peek(PeekCount::One)
lexer_peek_one(st) ==
  IF st.n0 # None THEN [st |-> st, tok |-> st.n0]
  ELSE With(next_internal(st), LAMBDA r : fill_slot_0(r))

\* peek(PeekCount::Two) that does not fill self.next[0] first
lexer_peek_two_unfilled(st) ==
  IF st.n1 # None THEN [st |-> st, tok |-> st.n1]
  ELSE With(next_internal(st), LAMBDA r : fill_slot_1(r))

\* Lexer::peek(PeekCount::Two)
lexer_peek_two(st) ==
  IF st.n1 # None THEN [st |-> st, tok |-> st.n1]
  ELSE IF st.n0 = None
    THEN With(next_internal(st), LAMBDA first :
         With(next_internal(fill_slot_0(first).st), LAMBDA r : fill_slot_1(r)))
  ELSE With(next_internal(st), LAMBDA r : fill_slot_1(r))

\* next that takes self.next[0] and leaves self.next[1] where it is
lexer_next_unshifted(st) ==
  IF st.n0 # None THEN [st |-> [st EXCEPT !.n0 = None], tok |-> st.n0]
  ELSE IF st.n1 # None THEN [st |-> [st EXCEPT !.n1 = None], tok |-> st.n1]
  ELSE next_internal(st)

\* Lexer::next
lexer_next(st) ==
  IF st.n0 # None THEN [st |-> [st EXCEPT !.n0 = st.n1, !.n1 = None], tok |-> st.n0]
  ELSE IF st.n1 # None THEN [st |-> [st EXCEPT !.n1 = None], tok |-> st.n1]
  ELSE next_internal(st)

\* the token stream of the text: next_internal until it returns None
RECURSIVE LexFrom(_)
LexFrom(st) ==
  With(next_internal(st), LAMBDA r :
    IF r.tok = None THEN <<>> ELSE <<r.tok>> \o LexFrom(r.st))

LexAll == LexFrom(NewState)

-----------------------------------------------------------------------------
(* Parser: token access, expect, resynchronisation *)

\* impl Display for TokenType
Display(k) ==
  CASE k.kind = "Struct" -> "struct"
    [] k.kind = "Ret" -> "ret"
    [] k.kind = "LBrace" -> "'{'"
    [] k.kind = "RBrace" -> "'}'"
    [] k.kind = "LParen" -> "'('"
    [] k.kind = "RParen" -> "')'"
    [] k.kind = "Colon" -> "':'"
    [] k.kind = "Semicolon" -> "';'"
    [] k.kind = "Dot" -> "'.'"
    [] k.kind = "Comma" -> "','"
    [] k.kind = "BinOp" -> "an operator"
    [] k.kind = "Equals" -> "'='"
    [] k.kind = "BinOpEquals" -> "an operator"
    [] k.kind = "Identifier" -> "an identifier"
    [] k.kind = "Num" -> "a number"
    [] k.kind = "CharLiteral" -> "a character literal"
    [] k.kind = "StringLiteral" -> "a string literal"
    [] k.kind = "Arrow" -> "'->'"

\* Parser::next, Parser::peek: self.has_error |= self.lexer.has_error()
pull(r) ==
  IF r.st.panic THEN [st |-> r.st, tok |-> None]
  ELSE [st |-> [r.st EXCEPT !.perr = @ \/ r.st.lerr], tok |-> r.tok]

\* Parser::next
parser_next(st) ==
  IF st.panic THEN [st |-> st, tok |-> None]
  ELSE With(lexer_next(st), LAMBDA r : pull(r))

\* Parser::peek
parser_peek(st, count) ==
  IF st.panic THEN [st |-> st, tok |-> None]
  ELSE IF count = 1 THEN With(lexer_peek_one(st), LAMBDA r : pull(r))
  ELSE With(lexer_peek_two(st), LAMBDA r : pull(r))

\* Parser::peek_one
peek_one(st) == parser_peek(st, 1)

\* an error diagnostic of the parser: emit, then self.has_error = true
ParserError(st, label, span) == SetParserError(Emit(st, label, span))

ParserErrorEoi(st, label) == SetParserError(EmitEoi(st, label))

\* Parser::expect: the label closure
RECURSIVE expect_label_from(_, _)
expect_label_from(expected, i) ==
  IF i > Len(expected) THEN <<>>
  ELSE (IF i < Len(expected) THEN <<Display(expected[i])>> ELSE <<" or ", Display(expected[i])>>)
       \o (IF i < Len(expected) - 1 THEN <<", ">> ELSE <<>>)
       \o expect_label_from(expected, i + 1)

expect_label(expected) ==
  IF Len(expected) = 1 THEN <<"expected ", Display(expected[1])>>
  ELSE IF Len(expected) = 2
    THEN <<"expected ", Display(expected[1]), " or ", Display(expected[2])>>
  ELSE <<"expected ">> \o expect_label_from(expected, 1)

InSeq(x, seq) == \E i \in 1..Len(seq) : seq[i] = x

\* expect that also takes the token it reports
expect_consuming(st, expected) ==
  With(peek_one(st), LAMBDA pk :
    IF pk.tok # None
      THEN [st |-> IF InSeq(Kind(pk.tok), expected)
                     THEN parser_next(pk.st).st
                     ELSE parser_next(ParserError(pk.st,
                                        expect_label(expected) \o <<" but got ", Display(pk.tok)>>,
                                        pk.tok.span)).st,
            tok |-> IF InSeq(Kind(pk.tok), expected) THEN pk.tok ELSE None]
      ELSE [st |-> ParserErrorEoi(pk.st, expect_label(expected) \o <<" but found eof">>),
            tok |-> None])

\* Parser::expect
expect(st, expected) ==
  With(peek_one(st), LAMBDA pk :
    IF pk.tok # None
      THEN IF InSeq(Kind(pk.tok), expected)
             THEN [st |-> parser_next(pk.st).st, tok |-> pk.tok]
             ELSE [st |-> ParserError(pk.st,
                                      expect_label(expected) \o <<" but got ", Display(pk.tok)>>,
                                      pk.tok.span),
                   tok |-> None]
      ELSE [st |-> ParserErrorEoi(pk.st, expect_label(expected) \o <<" but found eof">>),
            tok |-> None])

\* Spanned<String>
Spanned(x, span) == <<x, span>>

EmptyName == Spanned(<<>>, Span(0, 0))

\* Option<Spanned<String>>::None, Option<(Spanned<String>, Spanned<String>)>::None
NoIdent == <<"NoIdent">>

\* Parser::parse_ident
parse_ident(st, name) ==
  With(peek_one(st), LAMBDA pk :
    IF pk.tok # None
      THEN IF pk.tok.kind = "Identifier"
             THEN [st |-> parser_next(pk.st).st, v |-> Spanned(pk.tok.text, pk.tok.span)]
             ELSE [st |-> ParserError(pk.st,
                                      <<"expected ", name, " but got ", Display(pk.tok)>>,
                                      pk.tok.span),
                   v |-> NoIdent]
      ELSE [st |-> ParserErrorEoi(pk.st, <<"expected an identifier but found eof">>),
            v |-> NoIdent])

\* Parser::parse_ident_type
parse_ident_type(st) ==
  With(parse_ident(st, "an identifier"), LAMBDA name :
    IF name.v = NoIdent THEN name
    ELSE With(expect(name.st, <<TColon>>), LAMBDA colon :
      IF colon.tok = None THEN [st |-> colon.st, v |-> NoIdent]
      ELSE With(parse_ident(colon.st, "a type"), LAMBDA type :
        IF type.v = NoIdent THEN type
        ELSE [st |-> type.st, v |-> <<name.v, type.v>>])))

\* skip_until: the first entry of until that stops at token, 0 when there is none
RECURSIVE skip_until_hit(_, _, _)
skip_until_hit(until, token, i) ==
  IF i > Len(until) THEN 0
  ELSE IF Kind(token) = until[i][1] /\ until[i][2] \in {0, 1} THEN i
  ELSE skip_until_hit(until, token, i + 1)

\* skip_until that skips nothing
skip_until_none(st, until) == st

\* Parser::skip_until; until is a sequence of <<token type, amount>>
RECURSIVE skip_until(_, _)
skip_until(st, until) ==
  With(peek_one(st), LAMBDA pk :
    IF pk.tok = None THEN pk.st
    ELSE With(parser_peek(pk.st, 2), LAMBDA pk2 :
      IF pk2.tok # None
           /\ \E i \in 1..Len(until) : until[i][2] = 2 /\ Kind(pk2.tok) = until[i][1]
        THEN pk2.st
      ELSE With(skip_until_hit(until, pk.tok, 1), LAMBDA hit :
        IF hit # 0 /\ until[hit][2] = 1 THEN pk2.st
        ELSE IF hit # 0 THEN parser_next(pk2.st).st
        ELSE skip_until(parser_next(pk2.st).st, until))))

\* Recovery
Recovery(kind, span) == [kind |-> kind, span |-> span]

\* Parser::recover; a mark is a token type or NoMark (Option::None)
NoMark == TokenType("NoMark", "", <<>>, <<>>)

\* recover: the nesting depth after token
recover_braces(token, braces) ==
  IF Kind(token) \in {TLBrace, TLParen} THEN braces + 1
  ELSE IF Kind(token) \in {TRBrace, TRParen} THEN braces - 1
  ELSE braces

RECURSIVE recover_from(_, _, _, _)
recover_from(st, next_elem_mark, clause_end_mark, braces) ==
  With(peek_one(st), LAMBDA pk :
    IF pk.tok = None
      THEN [st |-> IF braces > 0 THEN EmitEoi(pk.st, <<"mismatched braces">>) ELSE pk.st,
            v |-> Recovery("Eof", Span(0, 0))]
    ELSE IF next_elem_mark # NoMark /\ Kind(pk.tok) = next_elem_mark
              /\ recover_braces(pk.tok, braces) = 0
      THEN [st |-> pk.st, v |-> Recovery("Continue", pk.tok.span)]
    ELSE IF clause_end_mark # NoMark /\ Kind(pk.tok) = clause_end_mark
              /\ recover_braces(pk.tok, braces) = 0
      THEN [st |-> pk.st, v |-> Recovery("Break", pk.tok.span)]
    ELSE recover_from(parser_next(pk.st).st, next_elem_mark, clause_end_mark,
                      recover_braces(pk.tok, braces)))

recover(st, next_elem_mark, clause_end_mark) ==
  recover_from(st, next_elem_mark, clause_end_mark, 0)

-----------------------------------------------------------------------------
(* Parser: the grammar *)

\* Expr
Error == <<"Error">>
Var(name) == <<"Var", name[1], name[2]>>
Num(num, span) == <<"Num", num, span>>
CharLiteral(text, span) == <<"CharLiteral", text, span>>
StringLiteral(text, span) == <<"StringLiteral", text, span>>
Neg(e) == <<"Neg", e>>
BinExpr(tag, lhs, rhs) == <<tag, lhs, rhs>>
Assign(target, value) == <<"Assign", target, value>>
Struct(name, fields) == <<"Struct", name, fields>>
Function(name, args, ret_type, body) == <<"Function", name, args, ret_type, body>>
VarDecl(name, type, value) == <<"VarDecl", name, type, value>>
Construct(name, fields) == <<"Construct", name, fields>>
FieldAccess(name, field) == <<"FieldAccess", name, field>>
Ret(value) == <<"Ret", value>>

\* Option<Expr>, Option<Vec<Expr>>
NoExpr == <<"NoExpr">>
OptNone == <<"None">>
OptSome(x) == <<"Some", x>>

\* Parser::get_prec; NoPrec is Option::None
NoPrec == -1

\* get_prec with one precedence for every operator
get_prec_flat(token) ==
  IF token.kind = "BinOp" /\ token.op # "Not" THEN 10 ELSE NoPrec

get_prec(token) ==
  IF token.kind = "BinOp"
    THEN CASE token.op \in {"Add", "Minus"} -> 10
           [] token.op \in {"Multiply", "Divide", "Modulo"} -> 20
           [] token.op \in {"And", "Or"} -> 5
           [] OTHER -> NoPrec
    ELSE NoPrec

\* parse_binexp: the operator token's Expr constructor
binop_expr(token) ==
  IF token.kind = "BinOp"
    THEN CASE token.op = "Add" -> "Add"
           [] token.op = "Minus" -> "Sub"
           [] token.op = "Multiply" -> "Mul"
           [] token.op = "Divide" -> "Div"
           [] token.op = "Modulo" -> "Mod"
           [] token.op = "And" -> "And"
           [] token.op = "Or" -> "Or"
           [] OTHER -> "unreachable"
    ELSE "unreachable"

RECURSIVE fold_neg(_, _)
fold_neg(e, n) == IF n = 0 THEN e ELSE fold_neg(Neg(e), n - 1)

RECURSIVE parse_binexp(_, _, _)
RECURSIVE parse_primary(_)
RECURSIVE parse_atom(_)
RECURSIVE parse_expression(_)

\* the inner loop goes on at an operator of equal precedence, too
climbs_at_equal(token, op_prec) == get_prec(token) # NoPrec /\ get_prec(token) >= op_prec

\* parse_binexp: the inner loop goes on at token: it has a precedence, above op_prec
climbs(token, op_prec) == get_prec(token) # NoPrec /\ get_prec(token) > op_prec

\* parse_binexp: the inner loop, which climbs into the right-hand side
RECURSIVE binexp_climb(_, _, _)
binexp_climb(st, rhs, op_prec) ==
  With(peek_one(st), LAMBDA pk :
    IF pk.tok = None \/ ~climbs(pk.tok, op_prec)
      THEN [st |-> pk.st, v |-> rhs]
      ELSE With(parse_binexp(pk.st, rhs,
                             op_prec + (IF get_prec(pk.tok) > op_prec THEN 1 ELSE 0)),
                LAMBDA r : binexp_climb(r.st, r.v, op_prec)))

\* parse_binexp: the right operand; prim is what parse_primary returned
binexp_rhs(prim, operator) ==
  IF prim.v # NoExpr THEN prim
  ELSE [st |-> ParserError(prim.st,
                           <<"expected a primary expression after ", Display(operator)>>,
                           Span(operator.span.start + (operator.span.end - operator.span.start),
                                operator.span.end + (operator.span.end - operator.span.start))),
        v |-> Error]

\* Parser::parse_binexp
parse_binexp(st, lhs, min_precedence) ==
  With(peek_one(st), LAMBDA pk :
    IF pk.tok = None \/ get_prec(pk.tok) = NoPrec \/ get_prec(pk.tok) < min_precedence
      THEN [st |-> pk.st, v |-> lhs]
      ELSE With(parser_next(pk.st), LAMBDA operator :
           With(parse_primary(operator.st), LAMBDA prim :
           With(binexp_rhs(prim, operator.tok), LAMBDA rhs :
           With(binexp_climb(rhs.st, rhs.v, get_prec(operator.tok)), LAMBDA climbed :
             IF climbed.st.panic THEN [st |-> climbed.st, v |-> Error]
             ELSE IF binop_expr(operator.tok) = "unreachable"
               THEN [st |-> Panic(climbed.st), v |-> Error]
             ELSE parse_binexp(climbed.st,
                               BinExpr(binop_expr(operator.tok), lhs, climbed.v),
                               min_precedence))))))

\* parse_primary: the leading minus tokens
RECURSIVE minus_stack(_, _)
minus_stack(st, n) ==
  With(peek_one(st), LAMBDA pk :
    IF pk.tok # None /\ pk.tok.kind = "BinOp" /\ pk.tok.op = "Minus"
      THEN minus_stack(parser_next(pk.st).st, n + 1)
      ELSE [st |-> pk.st, n |-> n])

\* parse_primary: the fields of a struct construction
RECURSIVE construct_fields(_, _)
construct_fields(st, fields) ==
  With(peek_one(st), LAMBDA pk :
    IF pk.tok = None \/ Kind(pk.tok) = TRBrace THEN [st |-> pk.st, v |-> fields]
    ELSE With(expect(pk.st, <<TDot>>), LAMBDA dot :
      IF dot.tok = None THEN [st |-> dot.st, v |-> fields]
      ELSE With(parse_ident(dot.st, "a field name"), LAMBDA name :
        IF name.v = NoIdent THEN [st |-> name.st, v |-> fields]
        ELSE With(expect(name.st, <<TEquals>>), LAMBDA eq :
          IF eq.tok = None THEN [st |-> eq.st, v |-> fields]
          ELSE With(parse_atom(eq.st), LAMBDA value :
            construct_fields(value.st, Append(fields, <<name.v, value.v>>)))))))

\* parse_primary, identifier branch; st is the state after the identifier
primary_identifier(st, ident) ==
  With(peek_one(st), LAMBDA nx :
    IF nx.tok # None /\ Kind(nx.tok) = TLBrace
      THEN With(construct_fields(parser_next(nx.st).st, <<>>), LAMBDA fs :
             [st |-> expect(fs.st, <<TRBrace>>).st, v |-> Construct(ident, fs.v)])
    ELSE IF nx.tok # None /\ Kind(nx.tok) = TDot
      THEN With(parse_ident(parser_next(nx.st).st, "a field name"), LAMBDA name :
             IF name.v = NoIdent THEN [st |-> name.st, v |-> NoExpr]
             ELSE [st |-> name.st, v |-> FieldAccess(ident, name.v)])
    ELSE [st |-> nx.st, v |-> Var(ident)])

\* parse_primary, '(' branch; expr is what parse_atom returned
primary_paren(expr) ==
  With(peek_one(expr.st), LAMBDA nx :
    IF nx.tok # None
      THEN IF Kind(nx.tok) # TRParen
             THEN [st |-> ParserError(nx.st, <<"expected ')' but got ", Display(nx.tok)>>,
                                      nx.tok.span),
                   v |-> expr.v]
             ELSE [st |-> parser_next(nx.st).st, v |-> expr.v]
      ELSE [st |-> ParserErrorEoi(nx.st, <<"expected ')'">>), v |-> expr.v])

\* Parser::parse_primary
parse_primary(st) ==
  With(minus_stack(st, 0), LAMBDA ms :
  With(peek_one(ms.st), LAMBDA pk :
    IF pk.tok = None THEN [st |-> pk.st, v |-> NoExpr]
    ELSE CASE pk.tok.kind = "Num" ->
                [st |-> parser_next(pk.st).st,
                 v |-> fold_neg(Num(pk.tok.num, pk.tok.span), ms.n)]
           [] pk.tok.kind = "Identifier" ->
                primary_identifier(parser_next(pk.st).st, Spanned(pk.tok.text, pk.tok.span))
           [] pk.tok.kind = "CharLiteral" ->
                [st |-> parser_next(pk.st).st, v |-> CharLiteral(pk.tok.text, pk.tok.span)]
           [] pk.tok.kind = "StringLiteral" ->
                [st |-> parser_next(pk.st).st, v |-> StringLiteral(pk.tok.text, pk.tok.span)]
           [] pk.tok.kind = "LParen" ->
                With(parse_atom(parser_next(pk.st).st), LAMBDA expr : primary_paren(expr))
           [] OTHER -> [st |-> pk.st, v |-> NoExpr]))

\* no primary, and no diagnostic for it
no_primary_silent(pk) ==
  [st |-> IF pk.tok # None THEN parser_next(pk.st).st ELSE pk.st, v |-> Error]

\* no primary, and the token that is none is left where it is
no_primary_stuck(pk) ==
  IF pk.tok # None
    THEN [st |-> ParserError(pk.st,
                             <<"expected a primary expression but got ", Display(pk.tok)>>,
                             pk.tok.span),
          v |-> Error]
    ELSE [st |-> ParserErrorEoi(pk.st, <<"expected a primary expression but found eof">>),
          v |-> Error]

\* parse_atom, parse_expression: no primary; pk is the token peeked after it
no_primary(pk) ==
  IF pk.tok # None
    THEN [st |-> ParserError(parser_next(pk.st).st,
                             <<"expected a primary expression but got ", Display(pk.tok)>>,
                             pk.tok.span),
          v |-> Error]
    ELSE [st |-> ParserErrorEoi(pk.st, <<"expected a primary expression but found eof">>),
          v |-> Error]

\* Parser::parse_atom
parse_atom(st) ==
  With(parse_primary(st), LAMBDA prim :
  With(peek_one(prim.st), LAMBDA pk :
    IF prim.v = NoExpr THEN no_primary(pk)
    ELSE IF pk.tok = None THEN [st |-> pk.st, v |-> prim.v]
    ELSE IF pk.tok.kind = "BinOp" THEN parse_binexp(pk.st, prim.v, 0)
    ELSE [st |-> pk.st, v |-> prim.v]))

\* parse_assign, struct branch: the loop over the fields.
\* how: "good" (closed by '}'), "eof" (the loop ran out of tokens),
\* "field" (a malformed field), "separator" (neither ',' nor '}' after a field)
RECURSIVE struct_fields(_, _)
struct_fields(st, fields) ==
  With(peek_one(st), LAMBDA pk :
    IF pk.tok = None THEN [st |-> pk.st, v |-> fields, how |-> "eof"]
    ELSE IF Kind(pk.tok) = TRBrace
      THEN [st |-> parser_next(pk.st).st, v |-> fields, how |-> "good"]
    ELSE With(parse_ident_type(pk.st), LAMBDA name_type :
      IF name_type.v = NoIdent
        THEN [st |-> skip_until(name_type.st, <<<<TSemicolon, 0>>>>),
              v |-> fields, how |-> "field"]
        ELSE With(expect(name_type.st, <<TComma, TRBrace>>), LAMBDA sep :
          IF sep.tok = None
            THEN [st |-> sep.st, v |-> Append(fields, name_type.v), how |-> "separator"]
          ELSE IF Kind(sep.tok) = TRBrace
            THEN [st |-> sep.st, v |-> Append(fields, name_type.v), how |-> "good"]
          ELSE struct_fields(sep.st, Append(fields, name_type.v)))))

\* parse_assign, struct branch: a missing '{'; st is the state after the failed expect.
\* give_up: return Expr::Error
struct_missing_lbrace(st) ==
  With(peek_one(st), LAMBDA p1 :
    IF p1.tok # None /\ (Kind(p1.tok) = TRBrace \/ p1.tok.kind = "Identifier")
      THEN [st |-> p1.st, give_up |-> FALSE]
      ELSE With(parser_peek(p1.st, 2), LAMBDA p2 :
             [st |-> p2.st, give_up |-> p2.tok = None \/ Kind(p2.tok) # TColon]))

\* parse_assign, struct branch, from the field loop on
struct_body(st, name) ==
  With(struct_fields(st, <<>>), LAMBDA fs :
    CASE fs.how = "field" -> [st |-> fs.st, v |-> Error]
      [] fs.how = "separator" -> [st |-> fs.st, v |-> Struct(name, fs.v)]
      [] fs.how = "eof" ->
           [st |-> ParserErrorEoi(fs.st, <<"expected '}' but found eof">>),
            v |-> Struct(name, fs.v)]
      [] OTHER -> [st |-> fs.st, v |-> Struct(name, fs.v)])

\* parse_assign, struct branch; st is the state after the struct keyword
assign_struct(st, name) ==
  With(expect(st, <<TLBrace>>), LAMBDA lbrace :
    IF lbrace.tok # None THEN struct_body(lbrace.st, name)
    ELSE With(struct_missing_lbrace(lbrace.st), LAMBDA m :
      IF m.give_up THEN [st |-> m.st, v |-> Error] ELSE struct_body(m.st, name)))

\* parse_assign, function branch: the loop over the parameters.
\* how: "done" (the loop was left), "error" (a malformed parameter: return Expr::Error)
RECURSIVE function_args(_, _)
function_args(st, args) ==
  With(peek_one(st), LAMBDA pk :
    IF pk.tok = None THEN [st |-> pk.st, v |-> args, how |-> "done"]
    ELSE IF Kind(pk.tok) = TRParen
      THEN [st |-> parser_next(pk.st).st, v |-> args, how |-> "done"]
    ELSE With(parse_ident_type(pk.st), LAMBDA name_type :
      IF name_type.v = NoIdent THEN [st |-> name_type.st, v |-> args, how |-> "error"]
      ELSE With(expect(name_type.st, <<TComma, TRParen>>), LAMBDA sep :
        IF sep.tok # None
          THEN IF Kind(sep.tok) = TRParen
                 THEN [st |-> sep.st, v |-> Append(args, name_type.v), how |-> "done"]
                 ELSE function_args(sep.st, Append(args, name_type.v))
          ELSE With(peek_one(sep.st), LAMBDA after :
            IF after.tok # None /\ after.tok.kind # "Identifier"
              THEN [st |-> after.st, v |-> Append(args, name_type.v), how |-> "done"]
              ELSE function_args(after.st, Append(args, name_type.v))))))

\* parse_assign, function branch: the signature.  '(' directly followed by '{'
\* is reported and the parameter list is skipped
function_signature(st) ==
  With(peek_one(st), LAMBDA p1 :
    IF p1.tok # None /\ p1.tok.kind # "Identifier" /\ Kind(p1.tok) = TLBrace
      THEN [st |-> ParserError(p1.st, <<"expected ')' but got ", Display(p1.tok)>>,
                               p1.tok.span),
            v |-> <<>>, how |-> "done"]
      ELSE function_args(p1.st, <<>>))

\* parse_assign, function branch: the return type clause.
\* how: "ok", or "error" (return Assign {target, value: Error})
function_ret_type(st) ==
  With(peek_one(st), LAMBDA p2 :
    IF p2.tok = None \/ Kind(p2.tok) # TArrow
      THEN [st |-> p2.st, v |-> EmptyName, how |-> "ok"]
      ELSE With(parse_ident(parser_next(p2.st).st, "a type"), LAMBDA type :
        IF type.v # NoIdent THEN [st |-> type.st, v |-> type.v, how |-> "ok"]
        ELSE With(peek_one(type.st), LAMBDA p3 :
          IF p3.tok # None /\ Kind(p3.tok) = TComma
            THEN [st |-> p3.st, v |-> EmptyName, how |-> "ok"]
            ELSE [st |-> p3.st, v |-> EmptyName, how |-> "error"])))

\* the loop over the statements had it put each statement before the others
RECURSIVE function_body_reversed(_, _)
function_body_reversed(st, body) ==
  With(peek_one(st), LAMBDA pk :
    IF pk.tok = None \/ Kind(pk.tok) = TRBrace THEN [st |-> pk.st, v |-> body]
    ELSE With(parse_expression(pk.st), LAMBDA e :
      function_body_reversed(e.st, <<e.v>> \o body)))

\* parse_assign, function branch: the loop over the statements of the body
RECURSIVE function_body(_, _)
function_body(st, body) ==
  With(peek_one(st), LAMBDA pk :
    IF pk.tok = None \/ Kind(pk.tok) = TRBrace THEN [st |-> pk.st, v |-> body]
    ELSE With(parse_expression(pk.st), LAMBDA e :
      function_body(e.st, Append(body, e.v))))

\* parse_assign, function branch; st is the state after '('
assign_function(st, name, target) ==
  With(function_signature(st), LAMBDA as :
    IF as.how = "error" THEN [st |-> as.st, v |-> Error]
    ELSE With(function_ret_type(as.st), LAMBDA ret_type :
      IF ret_type.how = "error" THEN [st |-> ret_type.st, v |-> Assign(target, Error)]
      ELSE With(expect(ret_type.st, <<TLBrace, TSemicolon>>), LAMBDA s :
        IF s.tok = None \/ Kind(s.tok) = TSemicolon
          THEN [st |-> s.st, v |-> Function(name, as.v, ret_type.v, OptNone)]
          ELSE With(function_body(s.st, <<>>), LAMBDA body :
            [st |-> expect(body.st, <<TRBrace>>).st,
             v |-> Function(name, as.v, ret_type.v, OptSome(body.v))]))))

\* parse_assign, ')' branch; st is the state after ')' and its diagnostic
assign_rparen(st) ==
  With(expect(st, <<TSemicolon, TLBrace>>), LAMBDA s :
    IF s.tok # None /\ Kind(s.tok) = TSemicolon THEN [st |-> s.st, v |-> Error]
    ELSE [st |-> skip_until(s.st, <<<<TRBrace, 0>>>>), v |-> Error])

\* parse_assign, last branch: a plain expression and its ';'
assign_value(st, target) ==
  With(parse_atom(st), LAMBDA value :
    [st |-> expect(value.st, <<TSemicolon>>).st, v |-> Assign(target, value.v)])

\* parse_assign: the name of a struct or function is the target, a bare identifier
assign_name(st, target, equals) ==
  IF target[1] = "Var" THEN [st |-> st, v |-> Spanned(target[2], target[3])]
  ELSE [st |-> ParserError(st, <<"expected an identifier">>, equals.span), v |-> EmptyName]

\* parse_assign, from the token after '=' on; st is the state after the peek
assign_dispatch(st, target, equals, token) ==
  IF Kind(token) = TStruct
    THEN With(assign_name(st, target, equals), LAMBDA name :
           assign_struct(parser_next(name.st).st, name.v))
  ELSE IF Kind(token) = TLParen
    THEN With(assign_name(st, target, equals), LAMBDA name :
           assign_function(parser_next(name.st).st, name.v, target))
  ELSE IF Kind(token) = TRParen
    THEN assign_rparen(ParserError(parser_next(st).st,
                                   <<"expected '(' but got ", Display(token)>>, token.span))
  ELSE assign_value(st, target)

\* Parser::parse_assign
parse_assign(st, target) ==
  With(parser_next(st), LAMBDA equals :
  With(peek_one(equals.st), LAMBDA pk :
    IF pk.tok = None
      THEN assign_dispatch(ParserErrorEoi(pk.st, <<"expected an expression">>), target,
                           equals.tok, Token("Num", "", <<>>, <<"0">>, 0, 0))
      ELSE assign_dispatch(pk.st, target, equals.tok, pk.tok)))

\* parse_vardecl that gives up the declaration when its terminator is missing
parse_vardecl_strict(st, name) ==
  With(parse_ident(parser_next(st).st, "a type"), LAMBDA type :
    IF type.v = NoIdent THEN [st |-> type.st, v |-> Error]
    ELSE With(expect(type.st, <<TEquals, TSemicolon>>), LAMBDA s :
      IF s.tok # None /\ Kind(s.tok) = TEquals
        THEN With(parse_atom(s.st), LAMBDA value :
             With(expect(value.st, <<TSemicolon>>), LAMBDA semi :
               [st |-> semi.st,
                v |-> IF semi.tok = None THEN Error
                      ELSE VarDecl(name, type.v, OptSome(value.v))]))
        ELSE [st |-> s.st,
              v |-> IF s.tok = None THEN Error ELSE VarDecl(name, type.v, OptNone)]))

\* Parser::parse_vardecl; name is the Spanned<String> of the Var before ':'
parse_vardecl(st, name) ==
  With(parse_ident(parser_next(st).st, "a type"), LAMBDA type :
    IF type.v = NoIdent THEN [st |-> type.st, v |-> Error]
    ELSE With(expect(type.st, <<TEquals, TSemicolon>>), LAMBDA s :
      IF s.tok # None /\ Kind(s.tok) = TEquals
        THEN With(parse_atom(s.st), LAMBDA value :
               [st |-> expect(value.st, <<TSemicolon>>).st,
                v |-> VarDecl(name, type.v, OptSome(value.v))])
        ELSE [st |-> s.st, v |-> VarDecl(name, type.v, OptNone)]))

\* parse_expression, ret branch; st is the state after the ret keyword
expression_ret(st) ==
  With(peek_one(st), LAMBDA p1 :
    IF p1.tok # None /\ Kind(p1.tok) = TSemicolon
      THEN [st |-> parser_next(p1.st).st, v |-> Ret(OptNone)]
      ELSE With(parse_atom(p1.st), LAMBDA value :
             [st |-> expect(value.st, <<TSemicolon>>).st, v |-> Ret(OptSome(value.v))]))

\* Parser::parse_expression
parse_expression(st) ==
  With(parse_primary(st), LAMBDA prim :
  With(peek_one(prim.st), LAMBDA pk :
    IF prim.v = NoExpr
      THEN IF pk.tok # None /\ Kind(pk.tok) = TRet
             THEN expression_ret(parser_next(pk.st).st)
             ELSE no_primary(pk)
    ELSE IF pk.tok = None
      THEN [st |-> ParserErrorEoi(pk.st, <<"expected an expression but found eof">>),
            v |-> Error]
    ELSE CASE pk.tok.kind = "BinOp" -> parse_binexp(pk.st, prim.v, 0)
           [] pk.tok.kind = "Equals" -> parse_assign(pk.st, prim.v)
           [] pk.tok.kind = "Colon" ->
                IF prim.v[1] = "Var"
                  THEN parse_vardecl(pk.st, Spanned(prim.v[2], prim.v[3]))
                  ELSE [st |-> ParserError(pk.st, <<"expected an identifier before ':'">>,
                                           pk.tok.span),
                        v |-> Error]
           [] OTHER -> [st |-> Panic(pk.st), v |-> Error]))

\* Parser::has_eof
has_eof(st) ==
  With(lexer_peek_one(st), LAMBDA r : [st |-> r.st, v |-> r.tok = None])

\* Parser::parse_toplevel_decl
parse_toplevel_decl(st) == parse_expression(st)

-----------------------------------------------------------------------------
(* Source texts *)

\* str::chars
Chars(s) == [i \in 1..Len(s) |-> SubSeq(s, i, i)]

\* all sequences over S of length lo..hi
SeqsOf(S, lo, hi) == UNION {[1..n -> S] : n \in lo..hi}

MaxSrcLen == 3

LexAlphabet == {"a", "1", " ", "-", "=", ";", "(", DQUOTE, BACKSLASH}

\* every text of at most MaxSrcLen characters of the alphabet
LexSources == SeqsOf(LexAlphabet, 0, MaxSrcLen)

MaxOps == 3

Operators == {"+", "-", "*", "/", "%", "&", "|"}

\* the i-th operand: an integer or an identifier
Operand(i, kind) ==
  IF kind = "integer" THEN SubSeq("123456789", i, i) ELSE SubSeq("abcdefghi", i, i)

\* "1 op 2 op 3 ...", the operators taken from ops
RECURSIVE InfixText(_, _, _)
InfixText(ops, i, kind) ==
  IF i > Len(ops) THEN <<Operand(i, kind)>>
  ELSE <<Operand(i, kind), " ", ops[i], " ">> \o InfixText(ops, i + 1, kind)

\* the infix expressions of 1..MaxOps operators over integer operands
InfixSources == {InfixText(ops, 1, "integer") : ops \in SeqsOf(Operators, 1, MaxOps)}

\* the same over identifiers
InfixIdentSources == {InfixText(ops, 1, "identifier") : ops \in SeqsOf(Operators, 1, MaxOps)}

\* expressions that start with minus signs
UnarySources == {Chars("--5"), Chars("-5"), Chars("--5 + 1"), Chars("1 - --5")}

ExprSources == InfixSources \cup InfixIdentSources \cup UnarySources

\* the inputs of version2/tests.rs
RegressionSources ==
  {Chars("a = struct"), Chars("a = struct }"), Chars("a = struct {"),
   Chars("a = struct { ; a = 10;"), Chars("a = struct {whatever: 10}"),
   Chars("a = struct {10: 10}"), Chars("a = ) {}"), Chars("a = ( {}")}

MaxFields == 2

\* the ways one field of a struct body is malformed
Malformations == {"name", "type", "colon", "separator"}

FieldName(j) == SubSeq("xyzuvw", j, j)

\* the j-th field; how is a malformation or "good"
FieldText(j, how) ==
  CASE how = "name" -> Chars("1: int")
    [] how = "type" -> <<FieldName(j)>> \o Chars(": 1")
    [] how = "colon" -> <<FieldName(j)>> \o Chars(" int")
    [] OTHER -> <<FieldName(j)>> \o Chars(": int")

\* what follows the j-th of n fields: ',' or the closing '}', or nothing of the two
SeparatorText(j, n, how) ==
  IF how = "separator" THEN (IF j < n THEN <<" ">> ELSE <<>>)
  ELSE IF j < n THEN Chars(", ") ELSE <<"}">>

\* the fields j..n of a struct body whose field bad is malformed as how
RECURSIVE FieldsText(_, _, _, _)
FieldsText(j, n, bad, how) ==
  IF j > n THEN <<>>
  ELSE FieldText(j, IF j = bad THEN how ELSE "good")
       \o SeparatorText(j, n, IF j = bad THEN how ELSE "good")
       \o FieldsText(j + 1, n, bad, how)

\* what follows the struct
Trailers == {<<>>, Chars(" b = 1;")}

\* a struct of n fields, exactly one of them malformed
MalformedStruct(n, bad, how, trailer) ==
  Chars("a = struct {") \o FieldsText(1, n, bad, how) \o trailer

MalformedStructSources ==
  {MalformedStruct(n[1], n[2], how, trailer) :
     n \in {m \in (1..MaxFields) \X (1..MaxFields) : m[2] <= m[1]},
     how \in Malformations, trailer \in Trailers}

\* further malformed declarations and expressions
MalformedSources ==
  {Chars("1 +"), Chars("(1"), Chars("a: 1"), Chars("1: int;"), Chars("a = (x) {}"),
   Chars("a = (x: int) -> 1 {}"), Chars("a = ) ;"), Chars("a = 1 + ;"),
   Chars("a = struct {x: int, y: int}"), Chars("a = (x: int) -> int { ret x; }")}

\* function declarations: 'a = ( params ) [-> int]' followed by ';' or a body
MaxParams == 2

MaxStmts == 2

\* the statements of a body: an assignment, a return, a variable declaration,
\* a plain binary expression (which no ';' ends)
Statements == {"assign", "ret", "vardecl", "binexp"}

StatementText(stmt) ==
  CASE stmt = "assign" -> Chars(" b = 1;")
    [] stmt = "ret" -> Chars(" ret x;")
    [] stmt = "binexp" -> Chars(" x + 1")
    [] OTHER -> Chars(" c: int;")

RECURSIVE ParamsText(_, _)
ParamsText(j, n) ==
  IF j > n THEN <<>>
  ELSE <<FieldName(j)>> \o Chars(": int") \o (IF j < n THEN Chars(", ") ELSE <<>>)
       \o ParamsText(j + 1, n)

RECURSIVE StatementsText(_)
StatementsText(stmts) ==
  IF stmts = <<>> THEN <<>> ELSE StatementText(Head(stmts)) \o StatementsText(Tail(stmts))

\* the bodies: none (';') or a block of statements
NoBody == <<"none">>

Bodies == {NoBody} \cup {<<"block", stmts>> : stmts \in SeqsOf(Statements, 0, MaxStmts)}

BodyText(body) ==
  IF body = NoBody THEN <<";">> ELSE Chars(" {") \o StatementsText(body[2]) \o Chars(" }")

FunctionText(n, with_ret, body) ==
  Chars("a = (") \o ParamsText(1, n) \o <<")">>
  \o (IF with_ret THEN Chars(" -> int") ELSE <<>>) \o BodyText(body)

FunctionSources ==
  {FunctionText(n, with_ret, body) :
     n \in 0..MaxParams, with_ret \in BOOLEAN, body \in Bodies}

\* assignments of an atom under leading minus signs: 'a = --5;'
MaxMinus == 2

Atoms == {"integer", "identifier", "field access", "construction", "char", "string",
          "parenthesized"}

AtomText(atom) ==
  CASE atom = "integer" -> Chars("5")
    [] atom = "identifier" -> Chars("x")
    [] atom = "field access" -> Chars("x.f")
    [] atom = "construction" -> Chars("T { .f = 1 }")
    [] atom = "char" -> <<SQUOTE, "c", SQUOTE>>
    [] atom = "string" -> <<DQUOTE, "s", DQUOTE>>
    [] OTHER -> Chars("(1)")

UnaryText(n, atom) ==
  Chars("a = ") \o [i \in 1..n |-> "-"] \o AtomText(atom) \o <<";">>

UnaryAtomSources == {UnaryText(n, atom) : n \in 0..MaxMinus, atom \in Atoms}

\* assignments of a struct construction of n fields, '.x = 1' and so on, with a
\* ',' or only a blank between two fields: 'a = T { .x = 1, .y = 2 };'
MaxInits == 2

InitSeparators == {Chars(", "), <<" ">>}

RECURSIVE InitsText(_, _, _)
InitsText(j, n, sep) ==
  IF j > n THEN <<>>
  ELSE <<".", FieldName(j)>> \o Chars(" = ") \o <<SubSeq("123456", j, j)>>
       \o (IF j < n THEN sep ELSE <<" ">>)
       \o InitsText(j + 1, n, sep)

ConstructText(n, sep) == Chars("a = T { ") \o InitsText(1, n, sep) \o Chars("};")

ConstructSources == {ConstructText(n, sep) : n \in 0..MaxInits, sep \in InitSeparators}

\* struct declarations of n well-formed fields 'x: p', with a ',' between two
\* fields and, when trailing, one more ',' before the closing '}'
TypeName(j) == SubSeq("pqrstw", j, j)

RECURSIVE PairsText(_, _)
PairsText(j, n) ==
  IF j > n THEN <<>>
  ELSE <<FieldName(j)>> \o Chars(": ") \o <<TypeName(j)>>
       \o (IF j < n THEN Chars(", ") ELSE <<>>)
       \o PairsText(j + 1, n)

StructText(n, trailing) ==
  Chars("a = struct {") \o PairsText(1, n) \o (IF trailing THEN <<",">> ELSE <<>>) \o <<"}">>

StructSources ==
  {StructText(n, trailing) : n \in 0..MaxFields, trailing \in BOOLEAN} \ {StructText(0, TRUE)}

\* variable declarations 'c: int', with or without a value, followed by the
\* terminator, by nothing, or by another token
VarValues == {"none", "integer", "identifier", "sum"}

VarValueText(value) ==
  CASE value = "none" -> <<>>
    [] value = "integer" -> Chars(" = 1")
    [] value = "identifier" -> Chars(" = x")
    [] OTHER -> Chars(" = 1 + x")

VarTails == {<<";">>, Chars("; y"), <<>>, Chars(" }"), Chars(" y"), Chars(" )")}

VarDeclText(value, tail) == Chars("c: int") \o VarValueText(value) \o tail

VarDeclSources == {VarDeclText(value, tail) : value \in VarValues, tail \in VarTails}

\* texts of operator characters: every first character of special_chars that
\* is a BinOp, every second character, and a letter
MaxOpLen == 2

OpAlphabet == {"+", "-", "*", "/", "%", "|", "&", "!", "=", ">", "a"}

OpSources == SeqsOf(OpAlphabet, 0, MaxOpLen)

\* texts of digits, a letter and blanks, and numerals at the limit of 64 bits:
\* 2^64 - 1, the same after a zero, and 2^64
MaxNumLen == 3

NumAlphabet == {"0", "1", "9", "a", " "}

U64Over == SubSeq(U64Max, 1, Len(U64Max) - 1) \o <<"6">>

NumSources ==
  SeqsOf(NumAlphabet, 0, MaxNumLen)
    \cup {U64Max, <<"0">> \o U64Max, U64Over, U64Over \o Chars(" a")}

\* texts that open with a literal: a quote, a body with escapes and a character
\* of two bytes, then nothing, the closing quote, or the closing quote and an
\* identifier
MaxLitLen == 3

LitBody == {"a", "n", "q", BACKSLASH, EACUTE}

LitTails(quote) == {<<>>, <<quote>>, <<quote, "a">>}

QuotedSources ==
  {<<quote>> \o body \o tail :
     quote \in {DQUOTE, SQUOTE}, body \in SeqsOf(LitBody, 0, MaxLitLen),
     tail \in LitTails(DQUOTE) \cup LitTails(SQUOTE)}

\* and texts with a character of two bytes outside a literal
LitSources == QuotedSources \cup {<<EACUTE, " ", "a">>, <<"a", EACUTE, " ", "a">>}

\* texts of several lines, with a character of two bytes
MaxMapLen == 4

MapAlphabet == {"a", NL, EACUTE}

MapSources == SeqsOf(MapAlphabet, 0, MaxMapLen)

DeclSources == RegressionSources \cup MalformedStructSources \cup MalformedSources

-----------------------------------------------------------------------------
(* The state machine *)

Install(st) ==
  /\ chars' = st.pos
  /\ read' = st.read
  /\ next' = <<st.n0, st.n1>>
  /\ lexer_has_error' = st.lerr
  /\ has_error' = st.perr
  /\ sink' = st.sink
  /\ panicked' = st.panic

\* the call that returned last, and the one before it
Called(name, value) ==
  /\ op' = name
  /\ ret' = value
  /\ prev_op' = op
  /\ prev_ret' = ret

\* DiagnosticEmitter::new, Lexer::new and Parser::new on one of the texts
InitWith(Sources) ==
  /\ src \in Sources
  /\ chars = 0
  /\ read = 0
  /\ next = <<None, None>>
  /\ lexer_has_error = FALSE
  /\ has_error = FALSE
  /\ sink = <<>>
  /\ panicked = FALSE
  /\ ast = <<>>
  /\ mode = "lex"
  /\ op = "new"
  /\ ret = None
  /\ prev_op = "new"
  /\ prev_ret = None
  /\ returned = <<>>

\* a call of Lexer::peek(PeekCount::One) by the owner of the lexer
LexPeekOne ==
  /\ mode = "lex" /\ ~panicked
  /\ \E r \in {lexer_peek_one(State)} : Install(r.st) /\ Called("peek_one", r.tok)
  /\ UNCHANGED <<src, ast, mode, returned>>

\* a call of Lexer::peek(PeekCount::Two)
LexPeekTwo ==
  /\ mode = "lex" /\ ~panicked
  /\ \E r \in {lexer_peek_two(State)} : Install(r.st) /\ Called("peek_two", r.tok)
  /\ UNCHANGED <<src, ast, mode, returned>>

\* a call of Lexer::next; nothing is called after it returned None
LexNext ==
  /\ mode = "lex" /\ ~panicked
  /\ ~(op = "next" /\ ret = None)
  /\ \E r \in {lexer_next(State)} :
       /\ Install(r.st)
       /\ Called("next", r.tok)
       /\ returned' = IF r.tok = None THEN returned ELSE Append(returned, r.tok)
  /\ UNCHANGED <<src, ast, mode>>

\* the parser is built on a lexer from which no token has been taken
ParserReady ==
  /\ ~panicked
  /\ IF mode = "lex" THEN returned = <<>> /\ op # "next" ELSE mode = "parse"

\* Parser::parse, one iteration of its loop: has_eof is false
ParseToplevelDecl ==
  /\ ParserReady
  /\ \E e \in {has_eof(State)} :
       /\ IF e.st.panic THEN TRUE ELSE ~e.v
       /\ \E r \in {parse_toplevel_decl(e.st)} :
            /\ Install(r.st)
            /\ ast' = IF r.st.panic THEN ast ELSE Append(ast, r.v)
            /\ Called("parse_toplevel_decl", [expr |-> r.v])
  /\ mode' = "parse"
  /\ UNCHANGED <<src, returned>>

\* Parser::parse: has_eof is true, the loop ends and ast is returned
ParseReturn ==
  /\ ParserReady
  /\ \E e \in {has_eof(State)} :
       /\ ~e.st.panic /\ e.v
       /\ Install(e.st)
       /\ Called("parse", [ast |-> ast])
  /\ mode' = "done"
  /\ UNCHANGED <<src, ast, returned>>

\* the marks Parser::recover is called with
RecoverMarks == {<<NoMark, NoMark>>, <<TComma, TRBrace>>, <<TSemicolon, NoMark>>}

\* a call of Parser::recover on a parser that has parsed nothing yet
Recover ==
  /\ ParserReady
  /\ mode = "lex"
  /\ \E marks \in RecoverMarks :
       \E r \in {recover(State, marks[1], marks[2])} :
         /\ Install(r.st)
         /\ Called("recover", [kind |-> r.v.kind, span |-> r.v.span, marks |-> marks])
  /\ mode' = "recovered"
  /\ UNCHANGED <<src, ast, returned>>

\* the token types Parser::expect is called with
ExpectSets == {<<TSemicolon>>, <<TLBrace>>, <<TComma, TRBrace>>, <<TEquals, TSemicolon>>}

\* a call of Parser::expect on a parser that has parsed nothing yet
Expect ==
  /\ ParserReady
  /\ mode = "lex"
  /\ \E expected \in ExpectSets :
       \E r \in {expect(State, expected)} :
         /\ Install(r.st)
         /\ Called("expect", [tok |-> r.tok, expected |-> expected])
  /\ mode' = "expected"
  /\ UNCHANGED <<src, ast, returned>>

\* the targets Parser::skip_until is called with: <<token type, amount>>,
\* amount 0 to stop after the token and 1 to stop before it
SkipTargets == {<<TSemicolon, 0>>, <<TRBrace, 0>>, <<TRBrace, 1>>}

\* a call of Parser::skip_until on a parser that has parsed nothing yet
SkipUntil ==
  /\ ParserReady
  /\ mode = "lex"
  /\ \E target \in SkipTargets :
       \E st \in {skip_until(State, <<target>>)} :
         /\ Install(st)
         /\ Called("skip_until", [target |-> target])
  /\ mode' = "skipped"
  /\ UNCHANGED <<src, ast, returned>>

\* a call of SourceMap::span_to_loc on the map of the text, with a span that
\* starts at a byte offset of the text or at its end
SpanToLoc ==
  /\ mode = "lex" /\ op = "new"
  /\ \E o \in 0..StrLen(src) :
       \E lines \in {SourceMap_new(src)} :
         /\ panicked' = span_to_loc_fails(lines)
         /\ Called("span_to_loc",
                   [offset |-> o, loc |-> span_to_loc(lines, Span(o, o))])
  /\ mode' = "map"
  /\ UNCHANGED <<src, chars, read, next, lexer_has_error, has_error, sink,
                 ast, returned>>

\* a call of SourceMap::eoi_span on the map of the text
EoiSpan ==
  /\ mode = "lex" /\ op = "new"
  /\ Called("eoi_span", eoi_span(SourceMap_new(src)))
  /\ mode' = "map"
  /\ UNCHANGED <<src, chars, read, next, lexer_has_error, has_error, sink,
                 panicked, ast, returned>>

\* the calls on a SourceMap
NextSourceMap ==
  \/ SpanToLoc
  \/ EoiSpan

\* the calls on a Lexer
NextLexer ==
  \/ LexPeekOne
  \/ LexPeekTwo
  \/ LexNext

\* the calls on a Parser
NextParser ==
  \/ ParseToplevelDecl
  \/ ParseReturn
  \/ Recover

\* the calls of the helpers of a Parser
NextParserUnit ==
  \/ Expect
  \/ SkipUntil
  \/ Recover

Next ==
  \/ NextSourceMap
  \/ NextLexer
  \/ NextParser
  \/ NextParserUnit

Init == InitWith(LexSources)

Spec == Init /\ [][Next]_vars

\* Parser::parse on the expressions
InitExpr == InitWith(ExprSources)

SpecExpr == InitExpr /\ [][NextParser]_vars

\* Parser::parse on the declarations
InitDecl == InitWith(DeclSources)

SpecDecl == InitDecl /\ [][NextParser]_vars

\* Parser::parse on the function declarations
InitFn == InitWith(FunctionSources)

SpecFn == InitFn /\ [][NextParser]_vars

\* Parser::parse run to its end on every text: the loop of parse goes on while
\* has_eof is false
ParseSources == LexSources \cup DeclSources \cup FunctionSources

InitParse == InitWith(ParseSources)

SpecParse == InitParse /\ [][NextParser]_vars /\ WF_vars(NextParser)

\* Parser::parse on the forms of expressions and declarations
FormSources ==
  UnaryAtomSources \cup ConstructSources \cup StructSources \cup VarDeclSources

InitForms == InitWith(FormSources)

SpecForms == InitForms /\ [][NextParser]_vars

\* texts of punctuation, identifiers and blanks for the helpers of the parser;
\* a helper is called after a token was read, so the text is not empty
MaxUnitLen == 3

UnitAlphabet == {"a", ";", ",", "{", "}", "(", ")", " "}

UnitSources == SeqsOf(UnitAlphabet, 1, MaxUnitLen)

InitUnit == InitWith(UnitSources)

SpecUnit == InitUnit /\ [][NextParserUnit]_vars

\* a Lexer on the texts of digits
InitNum == InitWith(NumSources)

SpecNum == InitNum /\ [][NextLexer]_vars

\* a Lexer on the operator texts
InitOps == InitWith(OpSources)

SpecOps == InitOps /\ [][NextLexer]_vars

\* a Lexer on the texts with literals
InitLit == InitWith(LitSources)

SpecLit == InitLit /\ [][NextLexer]_vars

\* SourceMap::new on the texts with lines, then one call on the map
InitSourceMap == InitWith(MapSources)

SpecSourceMap == InitSourceMap /\ [][NextSourceMap]_vars

-----------------------------------------------------------------------------
(* Properties *)

\* the precedence table of the specification
TablePrec(token) ==
  CASE token.op \in {"Multiply", "Divide", "Modulo"} -> 20
    [] token.op \in {"Add", "Minus"} -> 10
    [] token.op \in {"And", "Or"} -> 5

\* the node an operator builds
TableNode(token) ==
  CASE token.op = "Add" -> "Add"
    [] token.op = "Minus" -> "Sub"
    [] token.op = "Multiply" -> "Mul"
    [] token.op = "Divide" -> "Div"
    [] token.op = "Modulo" -> "Mod"
    [] token.op = "And" -> "And"
    [] token.op = "Or" -> "Or"

\* the leaf an operand builds
Leaf(token) ==
  IF token.kind = "Num" THEN Num(token.num, token.span)
  ELSE Var(Spanned(token.text, token.span))

\* the operators of the infix expression toks[lo..hi]
OperatorsAt(lo, hi) == {k \in lo..hi : (k - lo) % 2 = 1}

\* where toks[lo..hi] splits: at its last operator of lowest precedence
SplitAt(toks, lo, hi) ==
  CHOOSE k \in OperatorsAt(lo, hi) :
    \A j \in OperatorsAt(lo, hi) :
      \/ TablePrec(toks[k]) < TablePrec(toks[j])
      \/ TablePrec(toks[k]) = TablePrec(toks[j]) /\ j <= k

\* the tree of toks[lo..hi] in which higher precedence binds tighter
RECURSIVE TreeOf(_, _, _)
TreeOf(toks, lo, hi) ==
  IF lo = hi THEN Leaf(toks[lo])
  ELSE LET k == SplitAt(toks, lo, hi)
       IN BinExpr(TableNode(toks[k]), TreeOf(toks, lo, k - 1), TreeOf(toks, k + 1, hi))

\* the tree of toks[1..hi] nested to the left
RECURSIVE LeftNested(_, _)
LeftNested(toks, hi) ==
  IF hi = 1 THEN Leaf(toks[1])
  ELSE BinExpr(TableNode(toks[hi - 1]), LeftNested(toks, hi - 2), Leaf(toks[hi]))

\* the parse has produced nodes: parse is in its loop or has returned
Parsed == mode \in {"parse", "done"}

\* C1: an infix expression over integer operands and + - * / % & | parses, without
\* a diagnostic and without an abort, to the one tree in which an operator of
\* higher precedence (* / % = 20, + - = 10, & | = 5) binds tighter than its neighbours
C1_Precedence ==
  src \in InfixSources =>
    /\ ~panicked
    /\ Parsed => ast = <<TreeOf(LexAll, 1, Len(LexAll))>> /\ sink = <<>>

\* "1 + 2 * 3" has been parsed to Add(Num(1), Mul(Num(2), Num(3)))
C1_Witness ==
  /\ src = Chars("1 + 2 * 3")
  /\ op = "parse"
  /\ ast = <<BinExpr("Add", Num(<<"1">>, Span(0, 1)),
                     BinExpr("Mul", Num(<<"2">>, Span(4, 5)), Num(<<"3">>, Span(8, 9))))>>

\* all operators of the infix expression toks have one precedence
EqualPrecedence(toks) ==
  \A j, k \in OperatorsAt(1, Len(toks)) : TablePrec(toks[j]) = TablePrec(toks[k])

\* C2: a chain of operators of equal precedence, a op1 b op2 c, parses to
\* op2(op1(a, b), c): binary operators of equal precedence are left-associative
C2_LeftAssociative ==
  (src \in InfixSources \cup InfixIdentSources /\ EqualPrecedence(LexAll) /\ Parsed) =>
    ast = <<LeftNested(LexAll, Len(LexAll))>>

\* "1 - 2 - 3" has been parsed to Sub(Sub(Num(1), Num(2)), Num(3))
C2_Witness ==
  /\ src = Chars("1 - 2 - 3")
  /\ op = "parse"
  /\ ast = <<BinExpr("Sub", BinExpr("Sub", Num(<<"1">>, Span(0, 1)), Num(<<"2">>, Span(4, 5))),
                     Num(<<"3">>, Span(8, 9)))>>

\* C3: parsing "--5" yields the single top-level node Neg(Neg(Num(5)))
C3_DoubleNegation ==
  (src = Chars("--5") /\ op = "parse") => ast = <<Neg(Neg(Num(<<"5">>, Span(2, 3))))>>

\* C4: recovery does not cascade: a struct body with exactly one malformed field
\* is parsed with exactly one diagnostic, whatever follows the field
C4_NoCascade ==
  (src \in MalformedStructSources /\ op = "parse") => Len(sink) = 1

\* C5: each input of the regression set is parsed to the end, without an abort,
\* with exactly one diagnostic
C5_RegressionSet ==
  (src \in RegressionSources /\ mode # "recovered") =>
    /\ ~panicked
    /\ Len(sink) <= 1
    /\ op = "parse" => Len(sink) = 1

\* "a = ) {}" has been parsed with one diagnostic
C5_Witness ==
  /\ src = Chars("a = ) {}")
  /\ op = "parse"
  /\ Len(sink) = 1

\* C6: a peek(One) that follows a peek(One) returns the same token, and so does
\* a next that follows a peek(One): lookahead is idempotent and consumes nothing
C6_PeekIdempotent ==
  (mode = "lex" /\ prev_op = "peek_one" /\ op \in {"peek_one", "next"}) => ret = prev_ret

\* next has returned the token that two calls of peek(One) returned before it
C6_Witness ==
  /\ mode = "lex"
  /\ op = "next"
  /\ prev_op = "peek_one"
  /\ ret # None
  /\ ret = prev_ret

\* the i-th token of the text, None past its end
TokenAt(i) == IF i <= Len(LexAll) THEN LexAll[i] ELSE None

\* C7: whatever peeks come between, the tokens next returns are the tokens of the
\* text in order, all of them once next returns None; and peek(Two) returns the
\* token the second following next returns, None if fewer than two remain
C7_LookaheadFifo ==
  mode = "lex" =>
    /\ Len(returned) <= Len(LexAll)
    /\ returned = SubSeq(LexAll, 1, Len(returned))
    /\ (op = "next" /\ ret = None) => returned = LexAll
    /\ op = "next" => ret = TokenAt(IF ret = None THEN Len(returned) + 1 ELSE Len(returned))
    /\ op = "peek_one" => ret = TokenAt(Len(returned) + 1)
    /\ op = "peek_two" => ret = TokenAt(Len(returned) + 2)

\* peek(Two) has returned a token after a token was taken with next
C7_Witness ==
  /\ mode = "lex"
  /\ op = "peek_two"
  /\ returned # <<>>
  /\ ret # None
  /\ ret = LexAll[Len(returned) + 2]

\* C8: no source text drives the lexer or the parser into a fatal abort
C8_NoAbort == ~panicked

\* C9: the error flag is complete: when an operation of the parser has returned
\* and the sink holds a diagnostic, has_error is set
C9_FlagComplete ==
  (op \in {"parse_toplevel_decl", "parse", "recover"} /\ sink # <<>>) => has_error

\* the number of Expr::Error nodes in a sequence of nodes, and in a node
RECURSIVE ErrorsIn(_)
RECURSIVE ErrorsInAll(_)
ErrorsInAll(nodes) ==
  IF nodes = <<>> THEN 0 ELSE ErrorsIn(Head(nodes)) + ErrorsInAll(Tail(nodes))

\* the values of the fields of a struct construction
RECURSIVE FieldValues(_)
FieldValues(fields) ==
  IF fields = <<>> THEN <<>> ELSE <<Head(fields)[2]>> \o FieldValues(Tail(fields))

ErrorsIn(e) ==
  CASE e[1] = "Error" -> 1
    [] e[1] = "Neg" -> ErrorsIn(e[2])
    [] e[1] \in {"Add", "Sub", "Mul", "Div", "Mod", "And", "Or", "Assign"} ->
         ErrorsIn(e[2]) + ErrorsIn(e[3])
    [] e[1] = "Function" -> IF e[5] = OptNone THEN 0 ELSE ErrorsInAll(e[5][2])
    [] e[1] = "VarDecl" -> IF e[4] = OptNone THEN 0 ELSE ErrorsIn(e[4][2])
    [] e[1] = "Construct" -> ErrorsInAll(FieldValues(e[3]))
    [] e[1] = "Ret" -> IF e[2] = OptNone THEN 0 ELSE ErrorsIn(e[2][2])
    [] OTHER -> 0

\* C10: every Error node is paired with a diagnostic: the nodes parse has built
\* hold at most as many Error nodes, nested ones included, as diagnostics were emitted
C10_ErrorPaired ==
  Parsed => ErrorsInAll(ast) <= Len(sink)

\* parse has returned a node that holds an Error node inside, and a diagnostic
C10_Witness ==
  /\ op = "parse"
  /\ ErrorsInAll(ast) > 0
  /\ ast[1][1] = "Assign"
  /\ sink # <<>>

-----------------------------------------------------------------------------
(* The source map *)

\* the bytes of a text: a character of two bytes is followed by a
\* continuation byte
RECURSIVE Bytes(_)
Bytes(text) ==
  IF text = <<>> THEN <<>>
  ELSE (IF ByteLen(Head(text)) = 2 THEN <<Head(text), "cont">> ELSE <<Head(text)>>)
       \o Bytes(Tail(text))

\* the newlines among the first o bytes
NewlinesBefore(bytes, o) == {i \in 1..o : bytes[i] = NL}

\* the offset at which the line of offset o starts: after the last newline
\* before o
LineStart(bytes, o) ==
  IF NewlinesBefore(bytes, o) = {} THEN 0
  ELSE CHOOSE i \in NewlinesBefore(bytes, o) : \A j \in NewlinesBefore(bytes, o) : j <= i

\* the line and column of offset o, counted from 1
TrueLoc(bytes, o) ==
  Loc(Cardinality(NewlinesBefore(bytes, o)) + 1, o - LineStart(bytes, o) + 1)

\* the last line of a text, and the offset it starts at: a newline at the very
\* end does not open a line
LastLine(bytes) ==
  IF bytes # <<>> /\ bytes[Len(bytes)] = NL
    THEN TrueLoc(bytes, Len(bytes) - 1).line
    ELSE TrueLoc(bytes, Len(bytes)).line

LastLineStart(bytes) ==
  IF bytes # <<>> /\ bytes[Len(bytes)] = NL
    THEN LineStart(bytes, Len(bytes) - 1)
    ELSE LineStart(bytes, Len(bytes))

\* what C11 states of one call span_to_loc(o..o) on the map of src
LocIsRight ==
  LET bytes == Bytes(src)
      o == ret.offset
  IN /\ ~panicked
     /\ o < Len(bytes) => ret.loc = TrueLoc(bytes, o)
     /\ o = Len(bytes) =>
          ret.loc = Loc(LastLine(bytes), o - LastLineStart(bytes) + 1)

\* C11: span_to_loc returns the 1-based line and column of span.start: (1, 1)
\* for offset 0 of a single-line text, the line that contains the offset and
\* the offset's position in it plus one for every offset of every text, and
\* the last line for the offset at the end of the text
C11_SpanToLoc == op = "span_to_loc" => LocIsRight

\* the same on the texts that are not empty
C11_NonEmpty == (op = "span_to_loc" /\ src # <<>>) => LocIsRight

\* an offset on the second line, after a character of two bytes
C11_SecondLine ==
  /\ src = <<"a", NL, EACUTE, "a">>
  /\ op = "span_to_loc" /\ ret.offset = 4
  /\ ret.loc = Loc(2, 3)

\* C20: SourceMap::new partitions the text into ordered half-open line ranges:
\* the first starts at 0, each starts where the one before it ends, every range
\* but possibly the last ends just after a newline and holds no other newline,
\* a last line without a newline is included, and the ranges cover exactly the
\* bytes of the text; eoi_span is the empty span at the end of the last range
C20_Partition ==
  LET lines == SourceMap_new(src)
      bytes == Bytes(src)
      n == Len(lines)
  IN /\ n = 0 <=> bytes = <<>>
     /\ n > 0 => lines[1].start = 0 /\ lines[n].end = Len(bytes)
     /\ \A i \in 1..(n - 1) : lines[i + 1].start = lines[i].end
     /\ \A i \in 1..n : lines[i].start < lines[i].end
     /\ \A i \in 1..(n - 1) : bytes[lines[i].end] = NL
     /\ \A i \in 1..n : \A j \in (lines[i].start + 1)..(lines[i].end - 1) : bytes[j] # NL
     /\ op = "eoi_span" => ret = Span(Len(bytes), Len(bytes))

\* two lines, the last one a character of two bytes without a newline
C20_Witness ==
  /\ src = <<"a", NL, EACUTE>>
  /\ op = "eoi_span"
  /\ SourceMap_new(src) = <<Span(0, 2), Span(2, 4)>>
  /\ ret = Span(4, 4)

-----------------------------------------------------------------------------
(* The tokens of operator characters *)

\* the character of the text at which token t starts, and the one after it;
\* on a text without literals a span counts characters
FirstChar(t) == src[t.span.start + 1]

SecondChar(t) == IF t.span.start + 2 <= Len(src) THEN src[t.span.start + 2] ELSE ""

\* C14: the arrow token is produced exactly for '-' followed by '>': no other
\* operator character followed by '>' lexes as an arrow, and '-' followed by
\* '>' never lexes as a plain minus
C14_ArrowExact ==
  \A i \in 1..Len(returned) :
    returned[i].kind = "Arrow"
      <=> (FirstChar(returned[i]) = "-" /\ SecondChar(returned[i]) = ">")

\* what the code does: every BinOp character followed by '>' is an arrow
C14_ArrowOfAnyBinOp ==
  \A i \in 1..Len(returned) :
    returned[i].kind = "Arrow"
      <=> (/\ FirstChar(returned[i]) \in Operators \cup {"!"}
           /\ SecondChar(returned[i]) = ">")

\* "->" is an arrow of two characters
C14_Witness ==
  /\ src = <<"-", ">">>
  /\ returned = <<Token("Arrow", "", <<>>, <<>>, 0, 2)>>

\* C15: an operator-equals token is produced only for a combinable operator
\* (+ - * / % & |) followed by '=', and takes both characters; '!' followed by
\* '=' is never an operator-equals token; "==" is two assignment tokens
C15_CompoundOnlyCombinable ==
  \A i \in 1..Len(returned) :
    LET t == returned[i]
    IN /\ t.kind = "BinOpEquals"
            <=> (FirstChar(t) \in Operators /\ SecondChar(t) = "=")
       /\ t.kind = "BinOpEquals"
            => t = Token("BinOpEquals", special_chars[FirstChar(t)].op, <<>>, <<>>,
                         t.span.start, t.span.start + 2)
       /\ FirstChar(t) = "="
            => t = Token("Equals", "", <<>>, <<>>, t.span.start, t.span.start + 1)

\* what the code does: '!' combines with '=' as the other BinOp characters do
C15_CompoundOfAnyBinOp ==
  \A i \in 1..Len(returned) :
    LET t == returned[i]
    IN /\ t.kind = "BinOpEquals"
            <=> (FirstChar(t) \in Operators \cup {"!"} /\ SecondChar(t) = "=")
       /\ t.kind = "BinOpEquals"
            => t = Token("BinOpEquals", special_chars[FirstChar(t)].op, <<>>, <<>>,
                         t.span.start, t.span.start + 2)
       /\ FirstChar(t) = "="
            => t = Token("Equals", "", <<>>, <<>>, t.span.start, t.span.start + 1)

\* "==" is two assignment tokens
C15_Witness ==
  /\ src = <<"=", "=">>
  /\ returned = <<Token("Equals", "", <<>>, <<>>, 0, 1), Token("Equals", "", <<>>, <<>>, 1, 2)>>

-----------------------------------------------------------------------------
(* The spans of the tokens *)

\* the tokens the lexer has produced so far, in order: those returned by next,
\* then those held in self.next
Produced == returned \o SelectSeq(next, LAMBDA t : t # None)

\* C12: the spans of the tokens of successive calls are non-decreasing in start
\* and never overlap: every token has start < end, and its end is at most the
\* start of the token that follows it
C12_SpansOrdered ==
  \A i \in 1..Len(Produced) :
    /\ Produced[i].span.start < Produced[i].span.end
    /\ i < Len(Produced) => Produced[i].span.end <= Produced[i + 1].span.start

\* a compound token of two characters between two tokens of one character
C12_Witness ==
  /\ src = <<"a", "-", "=">>
  /\ returned = <<Token("Identifier", "", <<"a">>, <<>>, 0, 1),
                  Token("BinOpEquals", "Minus", <<>>, <<>>, 1, 3)>>

\* the bytes of the text in the span of token t
Slice(t) == SubSeq(Bytes(src), t.span.start + 1, t.span.end)

\* C13: the span of every token is the half-open range of byte offsets of the
\* token's own text, after a string or char literal and in a text with
\* characters of several bytes too: the span of an identifier holds the
\* identifier, the span of a literal starts on its quote and ends after the
\* closing quote or, for an unterminated literal, at the end of the text
C13_SpansAreByteRanges ==
  \A i \in 1..Len(Produced) :
    LET t == Produced[i]
    IN /\ t.span.end <= Len(Bytes(src))
       /\ t.kind = "Identifier" => Slice(t) = Bytes(t.text)
       /\ t.kind \in {"StringLiteral", "CharLiteral"} =>
            /\ Head(Slice(t)) = (IF t.kind = "CharLiteral" THEN SQUOTE ELSE DQUOTE)
            /\ \/ t.span.end = Len(Bytes(src))
               \/ Slice(t)[Len(Slice(t))] = Head(Slice(t))

-----------------------------------------------------------------------------
(* Malformed literals *)

\* the escapes of a literal and what they stand for
Escapes == [e \in {"n", "t", BACKSLASH, "0"} |->
              CASE e = "n" -> NL [] e = "t" -> TAB [] e = BACKSLASH -> BACKSLASH
                [] e = "0" -> NUL]

\* the literal that opens the text, read from character i on: its decoded
\* text, the characters of its invalid escapes, whether it is closed, and the
\* number of characters of the text it takes
RECURSIVE ReadLiteral(_, _, _, _)
ReadLiteral(quote, i, text, bad) ==
  IF i > Len(src)
    THEN [text |-> text, bad |-> bad, closed |-> FALSE, end |-> Len(src)]
  ELSE IF src[i] = quote
    THEN [text |-> text, bad |-> bad, closed |-> TRUE, end |-> i]
  ELSE IF src[i] # BACKSLASH
    THEN ReadLiteral(quote, i + 1, Append(text, src[i]), bad)
  ELSE IF i = Len(src)
    THEN ReadLiteral(quote, i + 1, text, bad)
  ELSE IF src[i + 1] \in DOMAIN Escapes
    THEN ReadLiteral(quote, i + 2, Append(text, Escapes[src[i + 1]]), bad)
  ELSE ReadLiteral(quote, i + 2, text, Append(bad, src[i + 1]))

Reported(label) == \E j \in 1..Len(sink) : sink[j].label = label

\* C16: the lexer never fails on a malformed literal: a literal that is not
\* closed, holds an escape other than \n \t \\ \0, or is a char literal of
\* more than one character is reported with a diagnostic and sets has_error,
\* and still gives exactly one literal token with the text read so far (an
\* invalid escape adds nothing to it); the characters after it are lexed next
C16_MalformedLiteral ==
  (src \in QuotedSources /\ Produced # <<>>) =>
    LET quote == src[1]
        lit == ReadLiteral(quote, 2, <<>>, <<>>)
        rest == SubSeq(src, lit.end + 1, Len(src))
        name == IF quote = SQUOTE THEN "char" ELSE "string"
    IN /\ ~panicked
       /\ Kind(Produced[1]) =
            TokenType(IF quote = SQUOTE THEN "CharLiteral" ELSE "StringLiteral",
                      "", lit.text, <<>>)
       /\ Len(Produced) = 1 => chars = lit.end
       /\ ~lit.closed =>
            /\ lexer_has_error
            /\ Reported(<<"unterminated " \o name \o " literal ">> \o lit.text)
       /\ \A k \in 1..Len(lit.bad) :
            /\ lexer_has_error
            /\ Reported(<<"invalid escape sequence ", lit.bad[k]>>)
       /\ (quote = SQUOTE /\ Len(lit.text) > 1) =>
            /\ lexer_has_error
            /\ Reported(<<"invalid character literal ">> \o lit.text)
       /\ (op = "next" /\ ret = None) =>
            /\ Len(returned) = 1 + Len(rest)
            /\ rest # <<>> => Kind(returned[2]) = TokenType("Identifier", "", rest, <<>>)

\* a char literal with an invalid escape, then an identifier
C16_Witness ==
  /\ src = <<SQUOTE, BACKSLASH, "q", "a", SQUOTE, "a">>
  /\ op = "next" /\ ret = None
  /\ lexer_has_error
  /\ Len(sink) = 1 /\ sink[1].label = <<"invalid escape sequence ", "q">>
  /\ Len(returned) = 2
  /\ Kind(returned[1]) = TokenType("CharLiteral", "", <<"a">>, <<>>)
  /\ Kind(returned[2]) = TokenType("Identifier", "", <<"a">>, <<>>)

-----------------------------------------------------------------------------
(* Declarations after a malformed struct *)

\* the text ends with the declaration " b = 1;"
HasSibling ==
  /\ Len(src) > 7
  /\ SubSeq(src, Len(src) - 6, Len(src)) = Chars(" b = 1;")

\* the struct body is closed by a '}'
StructClosed == \E i \in 1..Len(src) : src[i] = "}"

\* the last node is the assignment b = 1
SiblingParsed ==
  /\ ast # <<>>
  /\ ast[Len(ast)][1] = "Assign"
  /\ ast[Len(ast)][2][1] = "Var" /\ ast[Len(ast)][2][2] = <<"b">>
  /\ ast[Len(ast)][3][1] = "Num" /\ ast[Len(ast)][3][2] = <<"1">>

\* C17: a malformed struct field abandons only that struct declaration: the
\* well-formed declaration that follows the struct's closing '}' is still
\* parsed into its normal node
C17_SiblingsSurvive ==
  (src \in MalformedStructSources /\ StructClosed /\ HasSibling /\ op = "parse")
    => SiblingParsed

\* after a field with a missing separator the sibling is parsed
C17_Witness ==
  /\ src = Chars("a = struct {x: int y: int} b = 1;")
  /\ op = "parse"
  /\ SiblingParsed

-----------------------------------------------------------------------------
(* Function declarations *)

\* node is what the statement stands for
StatementNodeIs(node, stmt) ==
  CASE stmt = "assign" ->
         /\ node[1] = "Assign"
         /\ node[2][1] = "Var" /\ node[2][2] = <<"b">>
         /\ node[3][1] = "Num" /\ node[3][2] = <<"1">>
    [] stmt = "ret" ->
         /\ node[1] = "Ret" /\ node[2][1] = "Some"
         /\ node[2][2][1] = "Var" /\ node[2][2][2] = <<"x">>
    [] stmt = "binexp" ->
         /\ node[1] = "Add"
         /\ node[2][1] = "Var" /\ node[2][2] = <<"x">>
         /\ node[3][1] = "Num" /\ node[3][2] = <<"1">>
    [] OTHER ->
         /\ node[1] = "VarDecl"
         /\ node[2][1] = <<"c">> /\ node[3][1] = Chars("int") /\ node[4] = OptNone

\* f is the Function node of FunctionText(n, with_ret, body)
FunctionIs(f, n, with_ret, body) ==
  /\ f[1] = "Function"
  /\ f[2][1] = <<"a">>
  /\ Len(f[3]) = n
  /\ \A j \in 1..n : f[3][j][1][1] = <<FieldName(j)>> /\ f[3][j][2][1] = Chars("int")
  /\ f[4][1] = (IF with_ret THEN Chars("int") ELSE <<>>)
  /\ IF body = NoBody THEN f[5] = OptNone
     ELSE /\ f[5][1] = "Some"
          /\ Len(f[5][2]) = Len(body[2])
          /\ \A i \in 1..Len(body[2]) : StatementNodeIs(f[5][2][i], body[2][i])

\* C18: a well-formed function right-hand side 'name = ( params ) [-> type]'
\* followed by ';' gives a Function node with body None, followed by '{' '}'
\* one with body Some of the empty list, followed by '{' s1 .. sn '}' one with
\* body Some of the n statements in source order; name, args in order and
\* ret_type are those of the source, and no diagnostic is emitted
C18_FunctionBody ==
  /\ src \in FunctionSources => ~panicked
  /\ \A n \in 0..MaxParams, with_ret \in BOOLEAN, body \in Bodies :
       (op = "parse" /\ src = FunctionText(n, with_ret, body)) =>
         /\ Len(ast) = 1
         /\ FunctionIs(ast[1], n, with_ret, body)
         /\ sink = <<>>
         /\ ~has_error /\ ~lexer_has_error

\* two parameters, a return type and a body of two statements
C18_Witness ==
  /\ src = Chars("a = (x: int, y: int) -> int { b = 1; ret x; }")
  /\ op = "parse"
  /\ sink = <<>>
  /\ ast = <<Function(Spanned(<<"a">>, Span(0, 1)),
                      <<<<Spanned(<<"x">>, Span(5, 6)), Spanned(Chars("int"), Span(8, 11))>>,
                        <<Spanned(<<"y">>, Span(13, 14)), Spanned(Chars("int"), Span(16, 19))>>>>,
                      Spanned(Chars("int"), Span(24, 27)),
                      OptSome(<<Assign(Var(Spanned(<<"b">>, Span(30, 31))),
                                       Num(<<"1">>, Span(34, 35))),
                                Ret(OptSome(Var(Spanned(<<"x">>, Span(41, 42)))))>>))>>

\* no body and the empty body are told apart
C18_NoBody ==
  /\ src = Chars("a = ();")
  /\ op = "parse"
  /\ ast = <<Function(Spanned(<<"a">>, Span(0, 1)), <<>>, EmptyName, OptNone)>>

C18_EmptyBody ==
  /\ src = Chars("a = () { }")
  /\ op = "parse"
  /\ ast = <<Function(Spanned(<<"a">>, Span(0, 1)), <<>>, EmptyName, OptSome(<<>>))>>

-----------------------------------------------------------------------------
(* Progress of the parser *)

\* the tokens that are not consumed yet: those held in the lookahead and those
\* of the rest of the text
Remaining == Len(SelectSeq(next, LAMBDA t : t # None)) + Len(LexFrom(State))

\* a call of parse_toplevel_decl that returns has consumed a token; no call
\* gives a token back
Progress ==
  /\ Remaining' <= Remaining
  /\ (op' = "parse_toplevel_decl" /\ ~panicked') => Remaining' < Remaining

\* parse has returned, recover has returned, or the process has aborted
Finished == mode \in {"done", "recovered"} \/ panicked

\* C19: parsing runs to completion: every call of parse_toplevel_decl made
\* while tokens remain consumes at least one token, so the loop of parse ends
\* on every text
C19_Terminates == [][Progress]_vars /\ <>Finished

\* three calls of parse_toplevel_decl, one token each, then parse returns
C19_Witness ==
  /\ src = <<";", ";", ";">>
  /\ op = "parse"
  /\ ast = <<Error, Error, Error>>
  /\ Remaining = 0

-----------------------------------------------------------------------------
(* A primary in statement position *)

\* the first call of parse_toplevel_decl has ended
FirstCallEnded == op = "parse_toplevel_decl" /\ prev_op # "parse_toplevel_decl"

\* C21: in statement position a primary followed by a token that is neither
\* '=', ':' nor a binary operator ends the expression as it is:
\* parse_expression returns the primary, consumes no further token and emits
\* no diagnostic
C21_PrimaryEndsAsIs ==
  /\ (src = <<"a", ";">> /\ FirstCallEnded) =>
       /\ ~panicked
       /\ ast = <<Var(Spanned(<<"a">>, Span(0, 1)))>>
       /\ next = <<Token("Semicolon", "", <<>>, <<>>, 1, 2), None>>
       /\ sink = <<>>
  /\ (src = <<"1", ";">> /\ FirstCallEnded) =>
       /\ ~panicked
       /\ ast = <<Num(<<"1">>, Span(0, 1))>>
       /\ next = <<Token("Semicolon", "", <<>>, <<>>, 1, 2), None>>
       /\ sink = <<>>
  /\ (src = <<"a", " ", "a">> /\ FirstCallEnded) =>
       /\ ~panicked
       /\ ast = <<Var(Spanned(<<"a">>, Span(0, 1)))>>
       /\ next[1] = Token("Identifier", "", <<"a">>, <<>>, 2, 3)
       /\ sink = <<>>

\* what the code does: the call does not return
C21_Aborts ==
  (src \in {<<"a", ";">>, <<"1", ";">>, <<"a", " ", "a">>, <<"a", "(">>} /\ FirstCallEnded)
    => panicked /\ ast = <<>> /\ sink = <<>>

-----------------------------------------------------------------------------
(* Unary minus *)

\* the number of Neg nodes around an expression, and the expression in them
RECURSIVE NegDepth(_)
NegDepth(e) == IF e[1] = "Neg" THEN 1 + NegDepth(e[2]) ELSE 0

RECURSIVE NegInner(_)
NegInner(e) == IF e[1] = "Neg" THEN NegInner(e[2]) ELSE e

\* the node of an atom
AtomNodeKind(atom) ==
  CASE atom = "integer" -> "Num"
    [] atom = "identifier" -> "Var"
    [] atom = "field access" -> "FieldAccess"
    [] atom = "construction" -> "Construct"
    [] atom = "char" -> "CharLiteral"
    [] atom = "string" -> "StringLiteral"
    [] OTHER -> "Num"

\* the value assigned by the only declaration of the text
AssignedValue == ast[1][3]

\* C22: parse_primary folds leading unary minus over any atom: n minus tokens
\* followed by an atom of any kind (integer, identifier, field access, struct
\* construction, char or string literal, parenthesized expression) give that
\* atom in exactly n nested Neg nodes
C22_MinusFolds ==
  \A n \in 0..MaxMinus, atom \in Atoms :
    (src = UnaryText(n, atom) /\ op = "parse") =>
      /\ Len(ast) = 1 /\ ast[1][1] = "Assign"
      /\ NegDepth(AssignedValue) = n
      /\ NegInner(AssignedValue)[1] = AtomNodeKind(atom)

\* what the code does: only an integer is wrapped, the minus signs before any
\* other atom are dropped
C22_FoldsOnlyInteger ==
  \A n \in 0..MaxMinus, atom \in Atoms :
    (src = UnaryText(n, atom) /\ op = "parse") =>
      /\ Len(ast) = 1 /\ ast[1][1] = "Assign"
      /\ NegDepth(AssignedValue) = (IF atom = "integer" THEN n ELSE 0)
      /\ NegInner(AssignedValue)[1] = AtomNodeKind(atom)
      /\ sink = <<>>

\* two minus signs before an integer
C22_Witness ==
  /\ src = Chars("a = --5;")
  /\ op = "parse"
  /\ ast = <<Assign(Var(Spanned(<<"a">>, Span(0, 1))), Neg(Neg(Num(<<"5">>, Span(6, 7)))))>>

-----------------------------------------------------------------------------
(* C23: expect takes the token only when its kind is expected *)

\* the token the next peek of the parser returns
Upcoming == peek_one(State).tok

\* C23: after expect(set) on a parser that has read nothing: when the kind of
\* the first token of the text is in set, that token is returned, nothing is
\* reported and the next peek returns the second token; otherwise (another
\* token, or the end of the text) nothing is returned, exactly one diagnostic
\* is emitted, has_error is set and the next peek returns the same first token
C23_ExpectFrame ==
  op = "expect" =>
    IF TokenAt(1) # None /\ InSeq(Kind(TokenAt(1)), ret.expected)
      THEN /\ ret.tok = TokenAt(1)
           /\ sink = <<>>
           /\ ~has_error
           /\ Upcoming = TokenAt(2)
      ELSE /\ ret.tok = None
           /\ Len(sink) = 1
           /\ has_error
           /\ ~panicked
           /\ Upcoming = TokenAt(1)

\* expect(',' or '}') met ';': the token is reported and still the next one,
\* with another token behind it
C23_Witness ==
  /\ op = "expect"
  /\ ret.expected = <<TComma, TRBrace>>
  /\ ret.tok = None
  /\ TokenAt(1) # None /\ Kind(TokenAt(1)) = TSemicolon
  /\ TokenAt(2) # None
  /\ Upcoming = TokenAt(1)
  /\ Len(sink) = 1

\* expect met the end of the text
C23_AtEof == op = "expect" /\ TokenAt(1) = None /\ ret.tok = None /\ Len(sink) = 1

\* expect took the token it expected
C23_Taken == op = "expect" /\ ret.tok # None /\ Upcoming = TokenAt(2) /\ TokenAt(2) # None

-----------------------------------------------------------------------------
(* C24: skip_until and the groups opened during the skip *)

\* the number of groups opened by the first i tokens of the text and still open
RECURSIVE OpenAfter(_)
OpenAfter(i) ==
  IF i = 0 THEN 0
  ELSE IF Kind(LexAll[i]) \in {TLBrace, TLParen} THEN OpenAfter(i - 1) + 1
  ELSE IF Kind(LexAll[i]) \in {TRBrace, TRParen} /\ OpenAfter(i - 1) > 0 THEN OpenAfter(i - 1) - 1
  ELSE OpenAfter(i - 1)

\* the tokens of kind type that are outside every group opened before them
TargetsOutside(type) ==
  {i \in 1..Len(LexAll) : Kind(LexAll[i]) = type /\ OpenAfter(i - 1) = 0}

\* the tokens of kind type, wherever they are
TargetsAnywhere(type) == {i \in 1..Len(LexAll) : Kind(LexAll[i]) = type}

Least(S) == CHOOSE i \in S : \A j \in S : i <= j

\* the number of tokens a skip that stops at the first token of stops takes:
\* the token too when amount is 0, every token when there is none
SkippedUpTo(stops, amount) ==
  IF stops = {} THEN Len(LexAll) ELSE Least(stops) - amount

\* the number of tokens the parser has taken
Consumed == Len(LexAll) - Remaining

\* C24: skip_until for a target <<type, amount>> stops at the first token of that
\* type that is outside every group ('{' or '(') opened during the skip, before
\* the token when amount is 1 and just after it when amount is 0; a token of that
\* type inside such a group does not stop it
C24_SkipTracksDepth ==
  op = "skip_until" =>
    Consumed = SkippedUpTo(TargetsOutside(ret.target[1]), ret.target[2])

\* what the code does: the skip stops at the first token of the type
C24_SkipStopsAtFirst ==
  op = "skip_until" =>
    Consumed = SkippedUpTo(TargetsAnywhere(ret.target[1]), ret.target[2])

\* a skip to ';' that stopped after a ';' inside a group opened during the skip
C24_StoppedInside ==
  /\ op = "skip_until"
  /\ ret.target = <<TSemicolon, 0>>
  /\ Consumed = 2
  /\ Kind(LexAll[1]) = TLBrace
  /\ Kind(LexAll[2]) = TSemicolon
  /\ Len(LexAll) = 3

-----------------------------------------------------------------------------
(* C25: recover and the terminator of the enclosing list *)

\* the result recover owes when it stops before the first token of stops
RecoversAt(stops) ==
  IF stops = {}
    THEN /\ ret.kind = "Eof"
         /\ Consumed = Len(LexAll)
    ELSE /\ ret.kind = (IF Kind(LexAll[Least(stops)]) = ret.marks[1] THEN "Continue" ELSE "Break")
         /\ ret.span = LexAll[Least(stops)].span
         /\ Consumed = Least(stops) - 1
         /\ Upcoming = LexAll[Least(stops)]
         /\ sink = <<>>

\* C25: recover(next_elem_mark, clause_end_mark) takes the tokens before the
\* first marker that is outside every group opened during the scan and returns
\* Continue for a next-element marker, Break for a clause-end marker, the closing
\* '}' of the enclosing list included; it returns Eof only when there is no such
\* token, and then reports the groups that are still open
C25_RecoverStopsAtTerminator ==
  op = "recover" =>
    /\ RecoversAt(TargetsOutside(ret.marks[1]) \cup TargetsOutside(ret.marks[2]))
    /\ (ret.kind = "Eof" /\ OpenAfter(Len(LexAll)) > 0) => sink # <<>>

\* the net count of recover after the first i tokens: it falls below 0
RECURSIVE NetAfter(_)
NetAfter(i) == IF i = 0 THEN 0 ELSE recover_braces(LexAll[i], NetAfter(i - 1))

\* the markers at which the count of recover is 0, the marker counted
TargetsAtNetZero(type) ==
  {i \in 1..Len(LexAll) : Kind(LexAll[i]) = type /\ NetAfter(i) = 0}

\* what the code does: a closing marker is counted before it is compared, so it
\* stops the scan only when it closes a group opened during the scan
C25_RecoverCountsFirst ==
  op = "recover" =>
    /\ RecoversAt(TargetsAtNetZero(ret.marks[1]) \cup TargetsAtNetZero(ret.marks[2]))
    /\ (ret.kind = "Eof" /\ NetAfter(Len(LexAll)) > 0) <=> sink # <<>>

\* recover(',', '}') ran past the '}' of the enclosing list to the end of the text
C25_RanPastTerminator ==
  /\ op = "recover"
  /\ ret.marks = <<TComma, TRBrace>>
  /\ Len(LexAll) = 2
  /\ LexAll[1].kind = "Identifier"
  /\ Kind(LexAll[2]) = TRBrace
  /\ ret.kind = "Eof"
  /\ Consumed = 2

-----------------------------------------------------------------------------
(* C26: struct construction and field access *)

\* the fields of a Construct node are the first n fields of the family, in order
InitsAre(fields, n) ==
  /\ Len(fields) = n
  /\ \A j \in 1..n :
       /\ fields[j][1][1] = <<FieldName(j)>>
       /\ fields[j][2][1] = "Num"
       /\ fields[j][2][2] = <<SubSeq("123456", j, j)>>

\* the parse of 'a = T { ... };' gave one assignment of Construct T with n fields
ConstructIs(n) ==
  /\ Len(ast) = 1
  /\ ast[1][1] = "Assign"
  /\ AssignedValue[1] = "Construct"
  /\ AssignedValue[2][1] = <<"T">>
  /\ InitsAre(AssignedValue[3], n)
  /\ sink = <<>>
  /\ ~has_error

\* C26: 'T { .f1 = e1, .f2 = e2, ... }' parses to Construct with name T and the
\* fields in source order, with no diagnostic; 'x.f' parses to FieldAccess with
\* name x and field f
C26_ConstructAndFieldAccess ==
  op = "parse" =>
    /\ \A n \in 0..MaxInits : src = ConstructText(n, Chars(", ")) => ConstructIs(n)
    /\ src = UnaryText(0, "field access") =>
         /\ Len(ast) = 1 /\ ast[1][1] = "Assign"
         /\ AssignedValue[1] = "FieldAccess"
         /\ AssignedValue[2][1] = <<"x">>
         /\ AssignedValue[3][1] = <<"f">>
         /\ sink = <<>>

\* what the code does: the loop of the construction reads '.' right after the
\* value of a field, so it takes fields that follow each other without a ','
C26_FieldsWithoutComma ==
  op = "parse" =>
    \A n \in 0..MaxInits : src = ConstructText(n, <<" ">>) => ConstructIs(n)

\* a construction of two fields with a ',' between them was parsed, with diagnostics
C26_CommaReported ==
  /\ op = "parse"
  /\ src = ConstructText(2, Chars(", "))
  /\ sink # <<>>
  /\ Len(ast) > 1

-----------------------------------------------------------------------------
(* C27: struct declarations *)

\* the parse gave one Struct named a with the first n fields of the family
StructIs(n) ==
  /\ Len(ast) = 1
  /\ ast[1][1] = "Struct"
  /\ ast[1][2][1] = <<"a">>
  /\ Len(ast[1][3]) = n
  /\ \A j \in 1..n :
       /\ ast[1][3][j][1][1] = <<FieldName(j)>>
       /\ ast[1][3][j][2][1] = <<TypeName(j)>>

\* C27: 'a = struct { f1 : t1, ..., fk : tk }' parses to a Struct with the fields
\* in source order and no diagnostic; a ',' directly before the closing '}' is
\* not supported and produces a diagnostic
C27_StructFields ==
  op = "parse" =>
    \A n \in 0..MaxFields :
      /\ src = StructText(n, FALSE) => StructIs(n) /\ sink = <<>> /\ ~has_error
      /\ (n > 0 /\ src = StructText(n, TRUE)) => sink # <<>>

\* what the code does: after a ',' the loop of the fields takes a '}' as the
\* end of the list, so the ',' before '}' is accepted without a diagnostic
C27_TrailingCommaAccepted ==
  op = "parse" =>
    \A n \in 0..MaxFields, trailing \in BOOLEAN :
      (src = StructText(n, trailing) /\ (trailing => n > 0)) =>
        StructIs(n) /\ sink = <<>> /\ ~has_error

\* a struct of two fields and a ',' before '}' was parsed
C27_TrailingParsed ==
  /\ op = "parse"
  /\ src = StructText(2, TRUE)
  /\ StructIs(2)
  /\ sink = <<>>

-----------------------------------------------------------------------------
(* C28: integer literals *)

AllDigits(text) == \A i \in 1..Len(text) : is_digit(text[i])

\* the words of the text: its maximal runs of characters other than blanks
WordEnds == {i \in 1..Len(src) : src[i] # " " /\ (i = Len(src) \/ src[i + 1] = " ")}

\* C28: every maximal run of digits lexes to exactly one integer token with its
\* decimal value, a word with a character that is not a digit lexes to a keyword
\* or an identifier, and a run of digits of any length, a value above 2^64 - 1
\* included, still gives a token and does not stop the tokenization
C28_DigitRuns ==
  /\ ~panicked
  /\ \A i \in 1..Len(Produced) :
       IF AllDigits(Slice(Produced[i]))
         THEN Produced[i].kind = "Num" /\ Numeral(Produced[i].num) = Numeral(Slice(Produced[i]))
         ELSE Produced[i].kind # "Num"
  /\ (op = "next" /\ ret = None) => Len(returned) = Cardinality(WordEnds)

\* what the code does: a numeral of at most 2^64 - 1 is a token, a larger one
\* aborts the lexer in text.parse().unwrap()
C28_AbortsAboveU64 ==
  /\ panicked => \E i \in 1..Len(U64Over) : SubSeq(src, i, i + Len(U64Over) - 1) = U64Over
  /\ ~panicked =>
       /\ \A i \in 1..Len(Produced) :
            IF AllDigits(Slice(Produced[i]))
              THEN Produced[i].kind = "Num" /\ Numeral(Produced[i].num) = Numeral(Slice(Produced[i]))
              ELSE Produced[i].kind # "Num"
       /\ (op = "next" /\ ret = None) => Len(returned) = Cardinality(WordEnds)

\* the numeral of 2^64 - 1 was lexed to one integer token
C28_LargestLexed ==
  /\ src = U64Max
  /\ Len(returned) = 1
  /\ returned[1].kind = "Num" /\ returned[1].num = U64Max

\* the lexer aborted on the numeral of 2^64
C28_Aborted == src = U64Over /\ panicked

-----------------------------------------------------------------------------
(* C29: variable declarations *)

\* the number of tokens of 'c: int' and the value
VarDeclTokens(value) ==
  CASE value = "none" -> 3 [] value = "integer" -> 5 [] value = "identifier" -> 5 [] OTHER -> 7

\* the node of the value
VarValueIs(node, value) ==
  CASE value = "none" -> node = OptNone
    [] value = "integer" -> node[1] = "Some" /\ node[2][1] = "Num" /\ node[2][2] = <<"1">>
    [] value = "identifier" -> node[1] = "Some" /\ node[2][1] = "Var" /\ node[2][2] = <<"x">>
    [] OTHER -> node[1] = "Some" /\ node[2][1] = "Add"

\* C29: once the type of 'c: int' is read, the first call of parse_toplevel_decl
\* returns VarDecl of c and int: with value None when ';' follows, with
\* Some(expr) when '= expr ;' follows, both without a diagnostic and with the ';'
\* taken; when the terminator is missing the failed expect emits exactly one
\* diagnostic, the token found is left as the next token, and VarDecl is
\* returned all the same
C29_VarDecl ==
  \A value \in VarValues, tail \in VarTails :
    (src = VarDeclText(value, tail) /\ FirstCallEnded) =>
      /\ ~panicked
      /\ ret.expr[1] = "VarDecl"
      /\ ret.expr[2][1] = <<"c">>
      /\ ret.expr[3][1] = Chars("int")
      /\ VarValueIs(ret.expr[4], value)
      /\ IF tail # <<>> /\ Head(tail) = ";"
           THEN /\ sink = <<>>
                /\ ~has_error
                /\ Consumed = VarDeclTokens(value) + 1
           ELSE /\ Len(sink) = 1
                /\ has_error
                /\ Consumed = VarDeclTokens(value)
                /\ Upcoming = TokenAt(VarDeclTokens(value) + 1)

\* 'c: int = 1 }': the declaration is returned with its value, the missing ';' is
\* reported once and '}' is still the next token
C29_Witness ==
  /\ src = VarDeclText("integer", Chars(" }"))
  /\ FirstCallEnded
  /\ ret.expr[1] = "VarDecl"
  /\ ret.expr[4][1] = "Some"
  /\ Len(sink) = 1
  /\ Upcoming # None /\ Kind(Upcoming) = TRBrace

\* 'c: int;': the declaration without a value
C29_NoValue ==
  /\ src = VarDeclText("none", <<";">>)
  /\ FirstCallEnded
  /\ ret.expr[1] = "VarDecl" /\ ret.expr[4] = OptNone
  /\ sink = <<>>

-----------------------------------------------------------------------------
(* C30: the lookahead buffer *)

\* the tokens held in self.next, slot 0 first
Buffered == SelectSeq(next, LAMBDA t : t # None)

\* the tokens not yet taken from the lexer: those it holds, then those it has
\* not read
Pending == Buffered \o LexFrom(State)

\* C30: the lookahead buffer holds at most two tokens, slot 1 holds a token only
\* if slot 0 does, and the tokens it holds are exactly the next tokens of the
\* text that were not taken yet, in source order: they continue the tokens
\* returned by next, and with the tokens not read yet they are the rest of the
\* token stream of the text
C30_LookaheadBuffer ==
  ~panicked =>
    /\ Len(next) = 2
    /\ next[2] # None => next[1] # None
    /\ Len(Pending) <= Len(LexAll)
    /\ Pending = SubSeq(LexAll, Len(LexAll) - Len(Pending) + 1, Len(LexAll))
    /\ mode = "lex" => \A i \in 1..Len(Buffered) : Buffered[i] = TokenAt(Len(returned) + i)

\* one token was taken and the two after it are held
C30_Witness ==
  /\ mode = "lex"
  /\ Len(returned) = 1
  /\ next[1] # None /\ next[2] # None
  /\ next[1] = TokenAt(2) /\ next[2] = TokenAt(3)

=============================================================================
